---- MODULE Spec2Model ----
(***************************************************************************)
(* Model of the secure RTSP control channel of airplay-esp32:              *)
(*   main/rtsp/rtsp_crypto.c  rtsp_crypto_read_block (resumable encrypted  *)
(*                            frame reader), rtsp_crypto_write_frame       *)
(*                            (encrypted frame writer), send_all.          *)
(* A call of a C function is one action; the results of the recv, send and *)
(* malloc calls made inside the call are inputs of the action.             *)
(***************************************************************************)
EXTENDS Integers, Sequences, FiniteSets, TLC

VARIABLES
  conn,        \* rtsp_conn_t: hap_session (non-NULL?) and encrypted_mode
  hap_session, \* the session keys and the two nonce counters
  crypto_rx,   \* conn->crypto_rx, the partial-read state
  buffer,      \* the caller's plaintext buffer of rtsp_crypto_read_block
  rxWire,      \* bytes in flight towards the socket, not yet returned by recv
  txWire,      \* bytes accepted by send() during the last writer call
  peer,        \* the remote end: its writer's nonce counter, the socket's state
  last,        \* the last call: operation, return value, line of its return
  hist         \* history variables used to state the properties

vars == <<conn, hap_session, crypto_rx, buffer, rxWire, txWire, peer, last, hist>>

(***************************************************************************)
(* Sizes.                                                                  *)
(***************************************************************************)
\* Largest plaintext length of one frame (scaled down for model checking).
RTSP_ENCRYPTED_BLOCK_MAX == 2
\* Length of the Poly1305 tag appended to every ciphertext: 16 in the source
\* ("+ 16", lines 66 and 168), scaled down for model checking.
TAG_LEN == 2
\* sizeof(len_buf)
LEN_BUF_SIZE == 2
\* Longest payload handed to one writer call: it takes two frames.
MaxPayload == RTSP_ENCRYPTED_BLOCK_MAX + 1

Min(a, b) == IF a < b THEN a ELSE b

\* <<b, c, b, c, ...>> of length n
Alternating(b, c, n) == [i \in 1..n |-> IF i % 2 = 1 THEN b ELSE c]

\* The payloads of the writer calls: of every length 0..MaxPayload, with
\* neighbouring bytes different (so that a reordering of bytes shows).
Payloads == { Alternating(1, 2, n) : n \in 0..MaxPayload } \cup {<<2>>}

\* Capacities the caller passes as buffer_size.
BufferSizes == {1, RTSP_ENCRYPTED_BLOCK_MAX}

\* Outcomes of a recv that delivers no byte.
RecvEvents == {"EAGAIN", "CLOSED", "ERROR"}

(***************************************************************************)
(* libsodium's crypto_aead_chacha20poly1305_ietf_{encrypt,decrypt}, by     *)
(* contract: the ciphertext is the plaintext combined bytewise with a      *)
(* keystream of (key, nonce); the tag authenticates key, nonce, associated *)
(* data and ciphertext, so that altering one byte of any of them changes   *)
(* the expected tag.                                                       *)
(***************************************************************************)
RECURSIVE WeightedSum(_, _)
WeightedSum(s, i) ==
  IF i > Len(s) THEN 0 ELSE (2 * i + 1) * s[i] + WeightedSum(s, i + 1)

Keystream(key, npub, i) == (key + 7 * npub + 3 * i) % 256

Mac(key, npub, ad, c) ==
  (key + 5 * npub + 11 * WeightedSum(ad, 1) + WeightedSum(c, 1)) % 256

TagOf(key, npub, ad, c) ==
  CHOOSE tag \in {[j \in 1..TAG_LEN |-> (mac + j) % 256] :
                    mac \in {Mac(key, npub, ad, c)}} : TRUE

\* ciphertext followed by the tag; clen = mlen + 16
aead_encrypt(m, ad, npub, key) ==
  LET c == [i \in 1..Len(m) |-> (m[i] + Keystream(key, npub, i)) % 256]
  IN  c \o TagOf(key, npub, ad, c)

\* On a tag mismatch the output is zeroed and nothing is decrypted.
aead_decrypt(enc, ad, npub, key) ==
  CHOOSE d \in
    {LET mlen == Len(e) - TAG_LEN
         c    == SubSeq(e, 1, mlen)
         tag  == SubSeq(e, mlen + 1, Len(e))
     IN  IF mlen >= 0 /\ tag = TagOf(key, npub, a, c)
         THEN [ok |-> TRUE,
               m  |-> [i \in 1..mlen |->
                         (e[i] + 256 - Keystream(key, npub, i)) % 256]]
         ELSE [ok |-> FALSE,
               m  |-> [i \in 1..(IF mlen >= 0 THEN mlen ELSE 0) |-> 0]]
     : e \in {enc}, a \in {ad}} : TRUE

(***************************************************************************)
(* rtsp_crypto_read_block                                                  *)
(***************************************************************************)
NULL == [alloc |-> FALSE, mem |-> <<>>]

\* the 16-bit little-endian length of the header
BlockLenOf(len_buf) == (len_buf[1] + 256 * len_buf[2]) % 65536

\* the header bytes of a block length (writer, lines 161-163)
\* (faulty variant: most significant byte first)
LenBufBigEndian(block_len) == <<(block_len \div 256) % 256, block_len % 256>>
LenBufOf(block_len) == <<block_len % 256, (block_len \div 256) % 256>>

\* recv(socket, mem + off, ...) returning the bytes `data`
\* (faulty variant: the offset of the bytes already received is dropped)
RecvIntoStart(mem, off, data) ==
  [i \in 1..Len(mem) |-> IF i <= Len(data) THEN data[i] ELSE mem[i]]
RecvInto(mem, off, data) ==
  [i \in 1..Len(mem) |->
     IF i > off /\ i <= off + Len(data) THEN data[i - off] ELSE mem[i]]

\* the test of lines 56-57
\* (faulty variant: the length is not compared with buffer_size)
LengthNoCapacityCheck(block_len, buffer_size) ==
  block_len = 0 \/ block_len > RTSP_ENCRYPTED_BLOCK_MAX
LengthInvalid(block_len, buffer_size) ==
  block_len = 0 \/ block_len > RTSP_ENCRYPTED_BLOCK_MAX \/ block_len > buffer_size

\* lines 59-60
RxRejectLength(rx) == [rx EXCEPT !.len_received = 0, !.block_len = 0]

\* lines 65-68, malloc succeeding: the new memory holds no received byte (-1)
RxAllocate(rx, block_len) ==
  [rx EXCEPT !.block_len = block_len,
             !.encrypted_len = block_len + TAG_LEN,
             !.encrypted_received = 0,
             !.encrypted = [alloc |-> TRUE,
                            mem |-> [i \in 1..(block_len + TAG_LEN) |-> -1]]]

\* lines 65-73, malloc returning NULL
RxAllocFailed(rx) ==
  [rx EXCEPT !.len_received = 0, !.block_len = 0, !.encrypted_len = 0,
             !.encrypted_received = 0, !.encrypted = NULL]

\* free and reset, lines 89-94, 98-103, 120-125, 130-135
\* (faulty variant: encrypted_received is not reset)
RxResetKeepCount(rx) ==
  [rx EXCEPT !.encrypted = NULL, !.len_received = 0, !.block_len = 0,
             !.encrypted_len = 0]
RxReset(rx) ==
  [rx EXCEPT !.encrypted = NULL, !.len_received = 0, !.block_len = 0,
             !.encrypted_len = 0, !.encrypted_received = 0]

\* line 137
\* (faulty variant: the counter is left as it is)
NonceKept(n) == n
NonceNext(n) == n + 1

\* what a would-block return keeps of the state at that point (all of it)
\* (faulty variant: the count of header bytes is dropped)
WouldBlockDropHeader(rx) == [rx EXCEPT !.len_received = 0]
WouldBlockKeep(rx) == rx

\* The value of a call: the new state and the return value. `exit` is the
\* source line of the return statement taken; `written` counts the bytes the
\* call stored in the caller's buffer and `delivered` the decrypted ones.
Outcome(rx, nonce, buf, wire, ret, exit, written, delivered, allocs) ==
  [rx |-> rx, nonce |-> nonce, buffer |-> buf, wire |-> wire, ret |-> ret,
   exit |-> exit, written |-> written, delivered |-> delivered,
   allocs |-> allocs]

\* the test of lines 115-119 on the value of the decrypt call
\* (faulty variant: the value is ignored)
DecryptResultIgnored(d) == FALSE
DecryptFailed(d) == ~d.ok

\* lines 110-145: the ciphertext is complete
DecryptPhase(rx, s, buf, wire, buffer_size, allocs) ==
  CHOOSE o \in
    {LET out == [i \in 1..Len(buf) |->
                   IF i <= Len(d.m) THEN d.m[i] ELSE buf[i]]
     IN  IF DecryptFailed(d)
         THEN Outcome(RxReset(rx), s.decrypt_nonce, out, wire, -1, 128,
                      Len(d.m), 0, allocs)
         ELSE IF Len(d.m) > buffer_size
         THEN Outcome(RxReset(rx), NonceNext(s.decrypt_nonce), out, wire, -1,
                      142, Len(d.m), IF d.ok THEN Len(d.m) ELSE 0, allocs)
         ELSE Outcome(RxReset(rx), NonceNext(s.decrypt_nonce), out, wire,
                      Len(d.m), 145, Len(d.m), IF d.ok THEN Len(d.m) ELSE 0,
                      allocs)
     : d \in {aead_decrypt(rx.encrypted.mem, rx.len_buf, s.decrypt_nonce,
                           s.decrypt_key)}} : TRUE

\* lines 80-108: `n` more bytes arrive before a recv reports `ev`
CipherPhase(rx, s, buf, wire, buffer_size, n, ev, allocs) ==
  LET need == rx.encrypted_len - rx.encrypted_received
      take == Min(IF need > 0 THEN need ELSE 0, n)
      got  == SubSeq(wire, 1, take)
      rest == SubSeq(wire, take + 1, Len(wire))
  IN  CHOOSE o \in
        {IF take < need
         THEN CASE ev = "EAGAIN" ->
                     Outcome(WouldBlockKeep(rx1), s.decrypt_nonce, buf, rest,
                             0, 87, 0, 0, allocs)
                [] ev = "ERROR" ->
                     Outcome(RxReset(rx1), s.decrypt_nonce, buf, rest, -1, 95,
                             0, 0, allocs)
                [] OTHER ->
                     Outcome(RxReset(rx1), s.decrypt_nonce, buf, rest, -1,
                             105, 0, 0, allocs)
         ELSE DecryptPhase(rx1, s, buf, rest, buffer_size, allocs)
         : rx1 \in {[rx EXCEPT
                       !.encrypted.mem = RecvInto(@, rx.encrypted_received, got),
                       !.encrypted_received = @ + take]}} : TRUE

\* the test of line 52
\* (faulty variant: every call takes the branch)
NeedsBufferAlways(rx) == TRUE
NeedsBuffer(rx) == ~rx.encrypted.alloc

\* lines 52-77: the length header is complete
AllocPhase(rx, s, buf, wire, buffer_size, n, ev, mallocOk) ==
  IF ~NeedsBuffer(rx)
  THEN CipherPhase(rx, s, buf, wire, buffer_size, n, ev, 0)
  ELSE LET block_len == BlockLenOf(rx.len_buf)
       IN  IF LengthInvalid(block_len, buffer_size)
           THEN Outcome(RxRejectLength(rx), s.decrypt_nonce, buf, wire, -1, 62,
                        0, 0, 0)
           ELSE IF ~mallocOk
           THEN Outcome(RxAllocFailed(rx), s.decrypt_nonce, buf, wire, -1, 75,
                        0, 0, 0)
           ELSE CipherPhase(RxAllocate(rx, block_len), s, buf, wire,
                            buffer_size, n, ev, 1)

\* lines 34-49: the length header
LenPhase(rx, s, buf, wire, buffer_size, n, ev, mallocOk) ==
  LET need == LEN_BUF_SIZE - rx.len_received
      take == Min(IF need > 0 THEN need ELSE 0, n)
      got  == SubSeq(wire, 1, take)
      rest == SubSeq(wire, take + 1, Len(wire))
      rx1  == [rx EXCEPT !.len_buf = RecvInto(@, rx.len_received, got),
                         !.len_received = @ + take]
  IN  IF take < need
      THEN CASE ev = "EAGAIN" ->
                  Outcome(WouldBlockKeep(rx1), s.decrypt_nonce, buf, rest, 0, 41,
                          0, 0, 0)
             [] ev = "ERROR" ->
                  Outcome(rx1, s.decrypt_nonce, buf, rest, -1, 43, 0, 0, 0)
             [] OTHER ->
                  Outcome(rx1, s.decrypt_nonce, buf, rest, -1, 46, 0, 0, 0)
      ELSE AllocPhase(rx1, s, buf, rest, buffer_size, n - take, ev, mallocOk)

\* int rtsp_crypto_read_block(socket, conn, buffer, buffer_size)
\* c: the connection, s: its session, rx: conn->crypto_rx, buf: the caller's
\* buffer, wire: the bytes the socket can still deliver; during the call `n`
\* bytes arrive and the next recv reports `ev`; mallocOk: malloc succeeds.
rtsp_crypto_read_block(c, s, rx, buf, wire, buffer_size, n, ev, mallocOk) ==
  IF ~c.hap_session \/ ~c.encrypted_mode
  THEN Outcome(rx, s.decrypt_nonce, buf, wire, -1, 30, 0, 0, 0)
  ELSE LenPhase(rx, s, buf, wire, buffer_size, n, ev, mallocOk)

(***************************************************************************)
(* rtsp_crypto_write_frame                                                 *)
(***************************************************************************)
\* static int send_all(socket, data, len): the socket accepts `budget` more
\* bytes (in any number of partial sends) before a send returns <= 0.
\* (faulty variant: a failing send is not reported)
send_all_unchecked(data, budget) ==
  [ok |-> TRUE, out |-> SubSeq(data, 1, Min(budget, Len(data))),
   budget |-> budget - Min(budget, Len(data))]
send_all(data, budget) ==
  IF budget >= Len(data)
  THEN [ok |-> TRUE, out |-> data, budget |-> budget - Len(data)]
  ELSE [ok |-> FALSE, out |-> SubSeq(data, 1, budget), budget |-> 0]

\* lines 157-159
\* (faulty variant: a chunk that is not the last is one byte short)
ChunkLenShort(data_len, offset) ==
  IF data_len - offset > RTSP_ENCRYPTED_BLOCK_MAX
  THEN RTSP_ENCRYPTED_BLOCK_MAX - 1
  ELSE (data_len - offset) % 65536
ChunkLen(data_len, offset) ==
  IF data_len - offset > RTSP_ENCRYPTED_BLOCK_MAX
  THEN RTSP_ENCRYPTED_BLOCK_MAX
  ELSE (data_len - offset) % 65536

WriteOutcome(ret, exit, nonce, out, enc, offset) ==
  [ret |-> ret, exit |-> exit, nonce |-> nonce, out |-> out, enc |-> enc,
   offset |-> offset]

\* The state of the loop of lines 156-196. nonce: encrypt_nonce; offset;
\* budget: bytes the socket still accepts; allocs: mallocs that still succeed;
\* out: bytes accepted so far; enc: the encryptions made so far, as
\* <<nonce, chunk>>; exit: the line of the return statement taken, 0 while the
\* loop runs; ret: the value returned.
WriteState(nonce, offset, budget, allocs, out, enc, ret, exit) ==
  [nonce |-> nonce, offset |-> offset, budget |-> budget, allocs |-> allocs,
   out |-> out, enc |-> enc, ret |-> ret, exit |-> exit]

\* One test of the loop condition (line 156) and, when it holds, one pass of
\* the body (lines 157-195); a call that has returned stays as it is.
WriteStep(key, data, st) ==
  IF st.exit # 0 THEN st
  ELSE IF st.offset >= Len(data)
  THEN [st EXCEPT !.ret = 0, !.exit = 198]
  ELSE
    LET block_len == ChunkLen(Len(data), st.offset)
        len_buf   == LenBufOf(block_len)
        encrypted_len == block_len + TAG_LEN
    IN  IF st.allocs = 0
        THEN [st EXCEPT !.ret = -1, !.exit = 172]
        ELSE
          LET chunk     == SubSeq(data, st.offset + 1, st.offset + block_len)
              encrypted == aead_encrypt(chunk, len_buf, st.nonce, key)
              enc1      == Append(st.enc, <<st.nonce, chunk>>)
              s1        == send_all(len_buf, st.budget)
              s2        == send_all(encrypted, s1.budget)
          IN  IF Len(encrypted) # encrypted_len
              THEN [st EXCEPT !.ret = -1, !.exit = 183, !.enc = enc1]
              ELSE IF ~s1.ok
              THEN [st EXCEPT !.ret = -1, !.exit = 190, !.enc = enc1,
                              !.out = @ \o s1.out]
              ELSE IF ~s2.ok
              THEN [st EXCEPT !.ret = -1, !.exit = 190, !.enc = enc1,
                              !.out = @ \o s1.out \o s2.out]
              ELSE WriteState(st.nonce + 1, st.offset + block_len, s2.budget,
                              st.allocs - 1, st.out \o s1.out \o s2.out,
                              enc1, 0, 0)

\* n steps of the loop, one after the other: the first half, then the rest
\* from the state `mid` that the first half ends in.
RECURSIVE WriteSteps(_, _, _, _)
WriteSteps(key, data, st, n) ==
  IF n <= 1 THEN WriteStep(key, data, st)
  ELSE CHOOSE end \in { WriteSteps(key, data, mid, n - (n \div 2)) :
                        mid \in {WriteSteps(key, data, st, n \div 2)} } : TRUE

\* The loop of lines 156-196 from the state given to the return: every pass
\* advances offset by at least one byte, so that the loop has returned after
\* Len(data) + 1 steps.
WriteLoop(key, nonce, data, offset, budget, allocs, out, enc) ==
  LET st == WriteSteps(key, data,
                       WriteState(nonce, offset, budget, allocs, out, enc, 0, 0),
                       Len(data) + 1)
  IN  WriteOutcome(st.ret, st.exit, st.nonce, st.out, st.enc, st.offset)

\* int rtsp_crypto_write_frame(socket, conn, data, data_len)
rtsp_crypto_write_frame(c, s, data, budget, allocs) ==
  IF ~c.hap_session \/ ~c.encrypted_mode
  THEN WriteOutcome(-1, 152, s.encrypt_nonce, <<>>, <<>>, 0)
  ELSE WriteLoop(s.encrypt_key, s.encrypt_nonce, data, 0, budget, allocs,
                 <<>>, <<>>)

\* Number of frames and of wire bytes of a payload of L bytes.
FramesOf(L) ==
  (L + RTSP_ENCRYPTED_BLOCK_MAX - 1) \div RTSP_ENCRYPTED_BLOCK_MAX
WireSizeOf(L) == L + FramesOf(L) * (LEN_BUF_SIZE + TAG_LEN)

(***************************************************************************)
(* main/rtsp/rtsp_message.c: text. A string is the sequence of its bytes   *)
(* (ASCII codes); a char pointer is a record that is null or holds a       *)
(* string.                                                                 *)
(***************************************************************************)
NULLSTR == [null |-> TRUE, s |-> <<>>]
Str(s) == [null |-> FALSE, s |-> s]

\* "\r\n"
CRLF == <<13, 10>>

\* "RTSP/1.0 "
TxtRtsp10 == <<82, 84, 83, 80, 47, 49, 46, 48, 32>>
\* "CSeq: "
TxtCSeq == <<67, 83, 101, 113, 58, 32>>
\* "Server: AirTunes/377.40.00\r\n"
TxtServer == <<83, 101, 114, 118, 101, 114, 58, 32, 65, 105, 114, 84, 117, 110, 101, 115, 47, 51, 55, 55, 46, 52, 48, 46, 48, 48, 13, 10>>
\* "Content-Length: "
TxtContentLength == <<67, 111, 110, 116, 101, 110, 116, 45, 76, 101, 110, 103, 116, 104, 58, 32>>
\* "HTTP/1.1 "
TxtHttp11 == <<72, 84, 84, 80, 47, 49, 46, 49, 32>>
\* "Content-Type: "
TxtContentType == <<67, 111, 110, 116, 101, 110, 116, 45, 84, 121, 112, 101, 58, 32>>
\* "CSeq: 1\r\n"
TxtCSeq1 == <<67, 83, 101, 113, 58, 32, 49, 13, 10>>

\* the decimal digits of n >= 0
RECURSIVE Digits(_)
Digits(n) ==
  IF n < 10 THEN <<48 + n>> ELSE Digits(n \div 10) \o <<48 + (n % 10)>>

\* "%d"
FormatInt(n) == IF n < 0 THEN <<45>> \o Digits(0 - n) ELSE Digits(n)

\* "%zu"
FormatSize(n) == Digits(n)

\* char header[1024] of rtsp_send_response, char header[512] of
\* rtsp_send_http_response
RTSP_HEADER_SIZE == 1024
HTTP_HEADER_SIZE == 512

\* snprintf(header, size, ...) of the text `text`: the array holds the text cut
\* to size - 1 bytes and a NUL; the value is the length of the whole text.
Snprintf(size, text) ==
  [len |-> Len(text),
   array |-> SubSeq(text, 1, Min(Len(text), size - 1)) \o <<0>>]

\* memcpy(response, header, header_len): the first header_len bytes found at
\* the array; a byte past what snprintf stored is whatever the stack holds
\* there (`junk`).
HeadCopy(h, junk) ==
  [i \in 1..h.len |-> IF i <= Len(h.array) THEN h.array[i] ELSE junk]

\* lines 226-259: the text of the head formatted by the four snprintf calls
\* (faulty variant: the Content-Length line is written in every branch)
RtspHeadTextWithLength(status_code, status_text, cseq, extra_headers, body, body_len) ==
  TxtRtsp10 \o FormatInt(status_code) \o <<32>> \o status_text \o CRLF \o
  TxtCSeq \o FormatInt(cseq) \o CRLF \o TxtServer \o
  (IF extra_headers.null THEN <<>> ELSE extra_headers.s) \o
  TxtContentLength \o FormatSize(body_len) \o CRLF \o CRLF
RtspHeadText(status_code, status_text, cseq, extra_headers, body, body_len) ==
  LET fixed == TxtRtsp10 \o FormatInt(status_code) \o <<32>> \o status_text \o CRLF \o
               TxtCSeq \o FormatInt(cseq) \o CRLF \o
               TxtServer
      clen  == TxtContentLength \o FormatSize(body_len) \o CRLF
  IN  IF ~extra_headers.null /\ ~body.null /\ body_len > 0
      THEN fixed \o extra_headers.s \o clen \o CRLF
      ELSE IF ~extra_headers.null
      THEN fixed \o extra_headers.s \o CRLF
      ELSE IF ~body.null /\ body_len > 0
      THEN fixed \o clen \o CRLF
      ELSE fixed \o CRLF

\* lines 297-304
HttpHeadText(status_code, status_text, content_type, body_len) ==
  TxtHttp11 \o FormatInt(status_code) \o <<32>> \o status_text \o CRLF \o
  TxtContentType \o content_type \o CRLF \o
  TxtContentLength \o FormatSize(body_len) \o CRLF \o
  TxtServer \o
  TxtCSeq1 \o
  CRLF

\* lines 262-272 and 307-317: the response buffer of total_len bytes as malloc
\* returns it (every byte `junk`), then the head and, when body is not null
\* and body_len > 0, body_len bytes of the body copied in.
BuildResponse(h, body, body_len, junk) ==
  LET head == HeadCopy(h, junk)
  IN  [i \in 1..(h.len + body_len) |->
         IF i <= h.len THEN head[i]
         ELSE IF ~body.null /\ body_len > 0 THEN body.s[i - h.len]
         ELSE junk]

\* static int send_all(socket, data, len) of rtsp_message.c, lines 207-217: the
\* socket accepts `budget` more bytes before a send returns <= 0.
\* (faulty variant: the bytes are reported as sent when the send fails)
send_all_plain_unchecked(data, budget) ==
  [ok |-> TRUE, out |-> SubSeq(data, 1, Min(budget, Len(data)))]
send_all_plain(data, budget) ==
  IF budget >= Len(data)
  THEN [ok |-> TRUE, out |-> data]
  ELSE [ok |-> FALSE, out |-> SubSeq(data, 1, budget)]

\* send(socket, data + sent, n, 0) accepting n bytes: the bytes handed over
\* (faulty variant: the bytes are taken from the start of data again)
SentFromStart(data, sent, n) == SubSeq(data, 1, n)
SentFrom(data, sent, n) == SubSeq(data, sent + 1, sent + n)

\* The loop of send_all, lines 208-216, one send at a time. sent; out: the
\* bytes the socket accepted; calls: the number of send calls; done: the
\* function has returned ret.
SendLoopState(sent, out, calls, ret, done) ==
  [sent |-> sent, out |-> out, calls |-> calls, ret |-> ret, done |-> done]

\* One test of `sent < len` and, when it holds, one send that returns r (a
\* send accepts no more than the len - sent bytes it is given).
SendAllStep(data, st, r) ==
  IF st.done THEN st
  ELSE IF st.sent >= Len(data) THEN [st EXCEPT !.ret = 0, !.done = TRUE]
  ELSE IF Min(r, Len(data) - st.sent) <= 0
  THEN [st EXCEPT !.ret = -1, !.done = TRUE, !.calls = @ + 1]
  ELSE SendLoopState(st.sent + Min(r, Len(data) - st.sent),
                     st.out \o SentFrom(data, st.sent,
                                        Min(r, Len(data) - st.sent)),
                     st.calls + 1, 0, FALSE)

\* The loop run on the results rs of the successive send calls, from state st.
RECURSIVE SendAllFrom(_, _, _)
SendAllFrom(data, rs, st) ==
  IF rs = <<>> THEN SendAllStep(data, st, 0)
  ELSE CHOOSE end \in { SendAllFrom(data, Tail(rs), mid) :
                        mid \in {SendAllStep(data, st, Head(rs))} } : TRUE

\* send_all(socket, data, len) of rtsp_message.c when the send calls return
\* rs[1], rs[2], ... and every send after them fails
send_all_results(data, rs) ==
  SendAllFrom(data, rs, SendLoopState(0, <<>>, 0, 0, FALSE))

\* lines 276 and 321: the test that routes the response to the frame writer
\* (faulty variant: the plain path is taken when the session keys are missing)
FramedWhenKeyed(c) == c.encrypted_mode /\ c.hap_session
Framed(c) == c.encrypted_mode

\* The value of a builder call: ret; out: the bytes the socket accepted;
\* nonce: encrypt_nonce after the call; response: the buffer built (empty when
\* malloc failed); header_len; framed: the frame writer was called;
\* send_failed: a send returned <= 0.
SendOutcome(ret, out, nonce, response, header_len, framed, send_failed) ==
  [ret |-> ret, out |-> out, nonce |-> nonce, response |-> response,
   header_len |-> header_len, framed |-> framed, send_failed |-> send_failed]

\* lines 262-286 and 307-331: allocate, fill, route, send. h: the value of
\* snprintf; mallocOk: malloc(total_len) succeeds; budget and allocs: as in
\* rtsp_crypto_write_frame.
BuildAndSend(c, s, h, body, body_len, mallocOk, junk, budget, allocs) ==
  LET response == BuildResponse(h, body, body_len, junk)
  IN  IF ~mallocOk
      THEN SendOutcome(-1, <<>>, s.encrypt_nonce, <<>>, h.len, FALSE, FALSE)
      ELSE IF Framed(c)
      THEN LET w == rtsp_crypto_write_frame(c, s, response, budget, allocs)
           IN  SendOutcome(w.ret, w.out, w.nonce, response, h.len, TRUE,
                           w.exit = 190)
      ELSE LET r == send_all_plain(response, budget)
           IN  SendOutcome(IF r.ok THEN 0 ELSE -1, r.out, s.encrypt_nonce,
                           response, h.len, FALSE, ~r.ok)

\* int rtsp_send_response(socket, conn, status_code, status_text, cseq,
\*                        extra_headers, body, body_len)
rtsp_send_response(c, s, status_code, status_text, cseq, extra_headers, body, body_len, mallocOk, junk, budget, allocs) ==
  BuildAndSend(c, s,
               Snprintf(RTSP_HEADER_SIZE,
                        RtspHeadText(status_code, status_text, cseq,
                                     extra_headers, body, body_len)),
               body, body_len, mallocOk, junk, budget, allocs)

\* "OK"
TxtOK == <<79, 75>>

\* int rtsp_send_ok(socket, conn, cseq), lines 289-291
rtsp_send_ok(c, s, cseq, mallocOk, junk, budget, allocs) ==
  rtsp_send_response(c, s, 200, TxtOK, cseq, NULLSTR, NULLSTR, 0,
                     mallocOk, junk, budget, allocs)

\* int rtsp_send_http_response(socket, conn, status_code, status_text,
\*                             content_type, body, body_len)
rtsp_send_http_response(c, s, status_code, status_text, content_type, body, body_len, mallocOk, junk, budget, allocs) ==
  BuildAndSend(c, s,
               Snprintf(HTTP_HEADER_SIZE,
                        HttpHeadText(status_code, status_text, content_type,
                                     body_len)),
               body, body_len, mallocOk, junk, budget, allocs)

(***************************************************************************)
(* main/rtsp/rtsp_message.c: the request parser. Memory is a sequence of   *)
(* bytes; a pointer into it is an offset from its start (the C index), and *)
(* NULLPTR is the null pointer. A C string starts at an offset and ends    *)
(* before the first NUL byte at or after it. The loops of the C library    *)
(* and of the parser are written by what they return: the first offset at  *)
(* which their test holds.                                                 *)
(***************************************************************************)
NULLPTR == -1

\* the byte at offset q (0 past the end of the memory modelled)
At(m, q) == IF q >= 0 /\ q < Len(m) THEN m[q + 1] ELSE 0

\* the least element of a non-empty set of offsets
Least(S) == CHOOSE x \in S : \A y \in S : x <= y

\* the bytes at offsets from..(to - 1)
Bytes(m, from, to) == SubSeq(m, from + 1, to)

\* the offset of the NUL that ends the C string starting at p
StrEnd(m, p) == Least({q \in p..Len(m) : At(m, q) = 0})

\* the bytes pat stand at offset q
Occurs(m, q, pat) == \A k \in 1..Len(pat) : At(m, q + k - 1) = pat[k]

\* strstr(m + p, pat): the first occurrence in the C string starting at p
strstr(m, p, pat) ==
  LET hits == {q \in p..(StrEnd(m, p) - Len(pat)) : Occurs(m, q, pat)}
  IN  IF hits = {} THEN NULLPTR ELSE Least(hits)

\* isspace, isdigit, tolower of <ctype.h> ("C" locale)
isspace(c) == c = 32 \/ (c >= 9 /\ c <= 13)
isdigit(c) == c >= 48 /\ c <= 57
\* (faulty variant: the case of letters is kept)
tolower_none(c) == c
tolower(c) == IF c >= 65 /\ c <= 90 THEN c + 32 ELSE c

\* strncasecmp(m + p, key, n) == 0, for a key of at least n bytes
strncasecmp_eq(m, p, key, n) ==
  \A k \in 1..n : tolower(At(m, p + k - 1)) = tolower(key[k])

\* the value of the decimal digits ds
RECURSIVE DecimalValue(_)
DecimalValue(ds) ==
  IF ds = <<>> THEN 0
  ELSE 10 * DecimalValue(SubSeq(ds, 1, Len(ds) - 1)) + (ds[Len(ds)] - 48)

\* atoi(m + p): white space is skipped, then an optional sign and the decimal
\* digits that follow are converted
atoi(m, p) ==
  LET q    == Least({x \in p..Len(m) : ~isspace(At(m, x))})
      neg  == At(m, q) = 45
      d    == IF At(m, q) = 45 \/ At(m, q) = 43 THEN q + 1 ELSE q
      e    == Least({x \in d..Len(m) : ~isdigit(At(m, x))})
      v    == DecimalValue(Bytes(m, d, e))
  IN  IF neg THEN 0 - v ELSE v

\* (size_t)atoi(...): the 32 bits of the int, read as an unsigned number and
\* written as its two 16-bit halves (a negative int wraps around)
SizeOfInt(v) == [hi |-> (v \div 65536) % 65536, lo |-> v % 65536]

\* lines 14-47. The lines of the C string h start at 0 and after every
\* "\r\n"; the loop visits them in order while *p is not NUL and returns for
\* the first one that is at least as long as the key and starts with it,
\* letter case ignored: the offset after the key and the blanks that follow.
find_header_ci(h, key) ==
  LET key_len == Len(key)
      e       == StrEnd(h, 0)
      starts  == {0} \cup {q + 2 : q \in {x \in 0..(e - 2) : Occurs(h, x, CRLF)}}
      line_end(p) == IF strstr(h, p, CRLF) = NULLPTR THEN e
                     ELSE strstr(h, p, CRLF)
      found   == {p \in starts :
                    /\ p < e
                    /\ line_end(p) - p >= key_len
                    /\ strncasecmp_eq(h, p, key, key_len)}
  IN  IF key_len = 0 \/ found = {} THEN NULLPTR
      ELSE Least({v \in (Least(found) + key_len)..Len(h) :
                    At(h, v) # 32 /\ At(h, v) # 9})

\* sizeof(req->content_type): the array is declared in rtsp_message.h
CONTENT_TYPE_SIZE == 64

\* lines 49-71: the bytes at src up to NUL, CR, LF or dst_cap - 1 bytes,
\* without the blanks at their end
copy_header_value_token(dst_cap, h, src) ==
  IF src = NULLPTR THEN <<>>
  ELSE LET stop == Least({q \in src..Len(h) :
                            \/ At(h, q) = 0 \/ At(h, q) = 13 \/ At(h, q) = 10
                            \/ q - src + 1 >= dst_cap})
           w    == Bytes(h, src, stop)
           keep == {n \in 0..Len(w) :
                      \A k \in (n + 1)..Len(w) : w[k] = 32 \/ w[k] = 9}
       IN  SubSeq(w, 1, Least(keep))

\* line 74: the values of i for which the loop body runs
\* (faulty variant: every i below len)
ScanRangeWhole(len) == 0..(len - 1)
ScanRange(len) == {i \in 0..len : i + 3 < len}

\* lines 75-76: the test of the loop body at i, and the offsets it reads (the
\* conjunction stops at the first byte that differs)
TerminatorAt(data, i) ==
  /\ At(data, i) = 13 /\ At(data, i + 1) = 10
  /\ At(data, i + 2) = 13 /\ At(data, i + 3) = 10

ReadsAt(data, i) ==
  {i} \cup (IF At(data, i) # 13 THEN {}
            ELSE {i + 1} \cup (IF At(data, i + 1) # 10 THEN {}
                 ELSE {i + 2} \cup (IF At(data, i + 2) # 13 THEN {}
                      ELSE {i + 3})))

\* const uint8_t *rtsp_find_header_end(data, len), lines 73-81. pos: the value
\* returned; inspected: the offsets of the bytes read.
rtsp_find_header_end(data, len) ==
  LET hits == {i \in ScanRange(len) : TerminatorAt(data, i)}
      pos  == IF hits = {} THEN NULLPTR ELSE Least(hits)
      done == IF pos = NULLPTR THEN ScanRange(len)
              ELSE {i \in ScanRange(len) : i <= pos}
  IN  [pos |-> pos, inspected |-> UNION {ReadsAt(data, i) : i \in done}]

\* widths of "%31s %255s" (line 164)
METHOD_WIDTH == 31
PATH_WIDTH == 255

\* "%<width>s" of sscanf at offset p: white space is skipped, then the bytes
\* up to white space, NUL or `width` bytes are stored. from..to: the token;
\* an empty token at the NUL is an input failure.
ScanToken(m, p, width) ==
  LET from == Least({x \in p..Len(m) : ~isspace(At(m, x))})
      to   == Least({x \in from..Len(m) :
                       \/ isspace(At(m, x)) \/ At(m, x) = 0
                       \/ x - from >= width})
  IN  [from |-> from, to |-> to, ok |-> to > from]

\* sscanf(data, "%31s %255s", method, path), line 164: the number of tokens
\* stored (EOF = -1 when the string ends before the first) and the tokens
sscanf_method_path(m) ==
  LET t1 == ScanToken(m, 0, METHOD_WIDTH)
      t2 == ScanToken(m, t1.to, PATH_WIDTH)
  IN  IF ~t1.ok THEN [n |-> -1, method |-> <<>>, path |-> <<>>]
      ELSE IF ~t2.ok
      THEN [n |-> 1, method |-> Bytes(m, t1.from, t1.to), path |-> <<>>]
      ELSE [n |-> 2, method |-> Bytes(m, t1.from, t1.to),
            path |-> Bytes(m, t2.from, t2.to)]

\* "\r\n\r\n"
TxtTerminator == <<13, 10, 13, 10>>

\* lines 102-112: body (an offset into the request, or NULLPTR) and *body_len
rtsp_get_body(request, request_len) ==
  LET at == strstr(request, 0, TxtTerminator)
  IN  IF at # NULLPTR
      THEN [body |-> at + 4, body_len |-> request_len - (at + 4)]
      ELSE [body |-> NULLPTR, body_len |-> 0]

\* sizeof(header_str), line 170
HEADER_STR_SIZE == 1024

\* line 169: the number of bytes copied to header_str before the cut to the
\* array's size
\* (faulty variant: the whole buffer instead of the header block)
HeaderBytesWhole(header_end, len) == len
HeaderBytes(header_end, len) == header_end

\* "CSeq:", "Content-Length:", "Content-Type:"
KeyCSeq == <<67, 83, 101, 113, 58>>
KeyContentLength == <<67, 111, 110, 116, 101, 110, 116, 45, 76, 101, 110, 103, 116, 104, 58>>
KeyContentType == <<67, 111, 110, 116, 101, 110, 116, 45, 84, 121, 112, 101, 58>>

\* "content-length:", the second spelling rtsp_parse_content_length looks for
KeyContentLengthLower == <<99, 111, 110, 116, 101, 110, 116, 45, 108, 101, 110, 103, 116, 104, 58>>

\* int rtsp_parse_cseq(request), lines 83-89: strstr over the C string at
\* request, then atoi of what follows the 5 bytes of "CSeq:"
rtsp_parse_cseq(request) ==
  LET cseq == strstr(request, 0, KeyCSeq)
  IN  IF cseq # NULLPTR THEN atoi(request, cseq + Len(KeyCSeq)) ELSE 1

\* int rtsp_parse_content_length(request), lines 91-100
rtsp_parse_content_length(request) ==
  LET cl1 == strstr(request, 0, KeyContentLength)
      cl  == IF cl1 = NULLPTR THEN strstr(request, 0, KeyContentLengthLower)
             ELSE cl1
  IN  IF cl # NULLPTR THEN atoi(request, cl + Len(KeyContentLength)) ELSE 0

\* rtsp_request_t after memset(req, 0, sizeof(*req))
ZeroRequest ==
  [method |-> <<>>, path |-> <<>>, cseq |-> 0,
   content_length |-> SizeOfInt(0), content_type |-> <<>>, body |-> NULLPTR, body_len |-> 0]

\* int rtsp_request_parse(data, len, req), lines 150-204. data: the memory at
\* the pointer (the len bytes of the buffer and what follows them); the value
\* is ret, the line of the return and *req.
rtsp_request_parse(data, len) ==
  LET header_end == rtsp_find_header_end(data, len).pos
      scan       == sscanf_method_path(data)
      header_bytes == HeaderBytes(header_end, len)
      copy_len   == IF header_bytes >= HEADER_STR_SIZE
                    THEN HEADER_STR_SIZE - 1 ELSE header_bytes
      header_str == Bytes(data, 0, copy_len) \o <<0>>
      cseq       == find_header_ci(header_str, KeyCSeq)
      cl         == find_header_ci(header_str, KeyContentLength)
      ct         == find_header_ci(header_str, KeyContentType)
      b          == rtsp_get_body(data, len)
  IN  IF len = 0
      THEN [ret |-> -1, exit |-> 152, req |-> ZeroRequest]
      ELSE IF header_end = NULLPTR
      THEN [ret |-> -1, exit |-> 160, req |-> ZeroRequest]
      ELSE IF scan.n < 1
      THEN [ret |-> -1, exit |-> 165, req |-> ZeroRequest]
      ELSE [ret |-> 0, exit |-> 203,
            req |-> [method |-> scan.method,
                     path |-> scan.path,
                     cseq |-> IF cseq # NULLPTR THEN atoi(header_str, cseq)
                              ELSE 1,
                     content_length |->
                       IF cl # NULLPTR THEN SizeOfInt(atoi(header_str, cl))
                       ELSE SizeOfInt(0),
                     content_type |->
                       IF ct # NULLPTR
                       THEN copy_header_value_token(CONTENT_TYPE_SIZE,
                                                    header_str, ct)
                       ELSE <<>>,
                     body |-> b.body,
                     body_len |-> b.body_len]]

(***************************************************************************)
(* The state machine.                                                      *)
(***************************************************************************)
\* Number of times the remote end puts bytes on the wire in one run.
MaxPeerSends == 1
\* Number of writer calls of the connection in one run.
MaxWrites == 2

Established(c) == c.hap_session /\ c.encrypted_mode

\* What a reader call stores in *conn->hap_session: decrypt_nonce (line 137).
SessionAfterRead(s, nonce) == [s EXCEPT !.decrypt_nonce = nonce]

\* What a writer call stores in *conn->hap_session: encrypt_nonce (line 194).
\* (faulty variant: one counter serves both directions)
SessionAfterWriteShared(s, nonce) ==
  [s EXCEPT !.encrypt_nonce = nonce, !.decrypt_nonce = nonce]
SessionAfterWrite(s, nonce) == [s EXCEPT !.encrypt_nonce = nonce]

Idle(rx) == rx.len_received = 0 /\ ~rx.encrypted.alloc

\* The record of a call. op; ret: the value returned; exit: the source line of
\* the return; bsize: buffer_size; written, delivered, allocs: as in Outcome;
\* pre_nonce: the direction's nonce before the call; moved: the bytes taken
\* from (reader) or accepted by (writer) the socket; data_len and budget: the
\* writer's payload length and the bytes the socket would accept.
Call(op, ret, exit, bsize, written, delivered, allocs, pre_nonce, moved, data_len, budget) ==
  [op |-> op, ret |-> ret, exit |-> exit, bsize |-> bsize,
   written |-> written, delivered |-> delivered, allocs |-> allocs,
   pre_nonce |-> pre_nonce, moved |-> moved, data_len |-> data_len,
   budget |-> budget]

\* The connection right after pair-verify: encrypted mode, fresh counters,
\* zeroed partial-read state.
Init ==
  /\ conn = [hap_session |-> TRUE, encrypted_mode |-> TRUE]
  /\ hap_session = [encrypt_key |-> 23, decrypt_key |-> 11,
                    encrypt_nonce |-> 0, decrypt_nonce |-> 0]
  /\ crypto_rx = [len_buf |-> <<0, 0>>, len_received |-> 0, block_len |-> 0,
                  encrypted_len |-> 0, encrypted_received |-> 0,
                  encrypted |-> NULL]
  /\ buffer = [i \in 1..RTSP_ENCRYPTED_BLOCK_MAX |-> 0]
  /\ rxWire = <<>>
  /\ txWire = <<>>
  /\ peer = [encrypt_nonce |-> 0, sock |-> "open"]
  /\ last = Call("init", 0, 0, 0, 0, 0, 0, 0, 0, 0, 0)
  /\ hist = [start |-> [rx |-> crypto_rx, nonce |-> 0, wire |-> <<>>,
                        bsize |-> 0, buffer |-> buffer],
             clean |-> FALSE, sync |-> TRUE, sends |-> 0,
             sentPlain |-> <<>>, sentFrames |-> 0,
             readPlain |-> <<>>, readOk |-> 0, enc |-> <<>>,
             writes |-> 0, data |-> <<>>, held |-> 0, allocs |-> 0]

\* The bytes a call can take from the wire when no recv fails.
Consumable(bsize) ==
  Len(rxWire) -
  Len(rtsp_crypto_read_block(conn, hap_session, crypto_rx, buffer, rxWire,
                             bsize, Len(rxWire), "EAGAIN", TRUE).wire)

\* A call of rtsp_crypto_read_block by the connection's handler. The recv
\* calls deliver n bytes in all and the next one reports ev. After a recv
\* reported the end of the stream ("CLOSED", recv = 0) or a hard error
\* ("ERROR"), the socket delivers nothing more and reports the same again. (Inputs that the
\* call cannot tell apart are enumerated once: bytes beyond those the call
\* asks for, and the result of a malloc together with a failing recv.)
\* hist.allocs counts the ciphertext buffers allocated since the frame in
\* progress started.
ReadCall(bsize, ev, mallocOk, n) ==
  \E dead \in {peer.sock # "open"} :
  \E o \in {rtsp_crypto_read_block(conn, hap_session, crypto_rx, buffer,
                                   rxWire, bsize, n, ev, mallocOk)} :
    LET benign == Established(conn) /\ ev = "EAGAIN" /\ mallocOk
        fresh  == Idle(crypto_rx)
        failing == o.exit \in {43, 46, 95, 105}
    IN  /\ mallocOk \/ ev = "EAGAIN"
        /\ dead => n = 0 /\ ev = peer.sock
        /\ ~Established(conn) => n = 0 /\ ev = "EAGAIN" /\ mallocOk
        /\ crypto_rx' = o.rx
        /\ hap_session' = SessionAfterRead(hap_session, o.nonce)
        /\ buffer' = o.buffer
        /\ rxWire' = IF failing THEN <<>> ELSE o.wire
        /\ peer' = IF failing THEN [peer EXCEPT !.sock = ev] ELSE peer
        /\ last' = Call("read", o.ret, o.exit, bsize, o.written, o.delivered,
                        o.allocs, hap_session.decrypt_nonce,
                        Len(rxWire) - Len(o.wire), 0, 0)
        /\ hist' = [hist EXCEPT
             !.start = IF fresh
                       THEN [rx |-> crypto_rx,
                             nonce |-> hap_session.decrypt_nonce,
                             wire |-> rxWire, bsize |-> bsize,
                             buffer |-> buffer]
                       ELSE @,
             !.clean = benign /\ (fresh \/ (@ /\ bsize = hist.start.bsize)),
             !.sync = @ /\ benign /\ bsize >= RTSP_ENCRYPTED_BLOCK_MAX,
             !.readPlain = IF o.ret > 0
                           THEN @ \o SubSeq(o.buffer, 1, o.ret) ELSE @,
             !.readOk = IF o.ret > 0 THEN @ + 1 ELSE @,
             !.allocs = (IF fresh THEN 0 ELSE @) + o.allocs]
        /\ UNCHANGED <<conn, txWire>>

ReadBlock ==
  \E bsize \in BufferSizes, ev \in RecvEvents, mallocOk \in BOOLEAN :
  \E n \in 0..Consumable(bsize) :
    ReadCall(bsize, ev, mallocOk, n)

\* The remote end writes a payload with its own rtsp_crypto_write_frame: its
\* encrypt key is this connection's decrypt key. (It writes when the bytes of
\* its previous write have been delivered.)
PeerWrite ==
  \E P \in Payloads \ {<<>>} :
    LET w == rtsp_crypto_write_frame(
               [hap_session |-> TRUE, encrypted_mode |-> TRUE],
               [encrypt_key |-> hap_session.decrypt_key,
                encrypt_nonce |-> peer.encrypt_nonce],
               P, WireSizeOf(Len(P)), FramesOf(Len(P)))
    IN  /\ rxWire = <<>>
        /\ peer.sock = "open"
        /\ Established(conn)
        /\ hist.sends < MaxPeerSends
        /\ rxWire' = w.out
        /\ peer' = [peer EXCEPT !.encrypt_nonce = w.nonce]
        /\ last' = Call("peer", w.ret, w.exit, 0, 0, 0, 0, peer.encrypt_nonce,
                        Len(w.out), Len(P), 0)
        /\ hist' = [hist EXCEPT !.sends = @ + 1,
                                !.sentPlain = @ \o P,
                                !.sentFrames = @ + FramesOf(Len(P))]
        /\ UNCHANGED <<conn, hap_session, crypto_rx, buffer, txWire>>

\* Length headers that are not followed by a frame of the remote writer.
JunkHeaders ==
  { <<0, 0>>, <<RTSP_ENCRYPTED_BLOCK_MAX + 1, 0>>, <<1, 1>>,
    <<RTSP_ENCRYPTED_BLOCK_MAX, 0>> }

\* Two bytes that are no frame of the remote writer arrive (a broken or
\* hostile peer).
PeerJunk ==
  \E h \in JunkHeaders :
    /\ rxWire = <<>>
    /\ peer.sock = "open"
    /\ Established(conn)
    /\ hist.sends < MaxPeerSends
    /\ rxWire' = h
    /\ last' = Call("junk", 0, 0, 0, 0, 0, 0, 0, 0, 0, 0)
    /\ hist' = [hist EXCEPT !.sends = @ + 1, !.sync = FALSE]
    /\ UNCHANGED <<conn, hap_session, crypto_rx, buffer, txWire, peer>>

\* One byte of the ciphertext or tag of a frame is altered to another value.
AlterByte(frame, i) == [frame EXCEPT ![i] = (@ + 1) % 256]

\* The remote end writes a one-frame payload and one byte of the ciphertext
\* or of the tag is altered in flight; it is the only thing sent in the run.
PeerTamper ==
  \E P \in Payloads \ {<<>>} :
    LET w == rtsp_crypto_write_frame(
               [hap_session |-> TRUE, encrypted_mode |-> TRUE],
               [encrypt_key |-> hap_session.decrypt_key,
                encrypt_nonce |-> peer.encrypt_nonce],
               P, WireSizeOf(Len(P)), FramesOf(Len(P)))
    IN  /\ rxWire = <<>>
        /\ peer.sock = "open"
        /\ Established(conn)
        /\ hist.sends = 0
        /\ FramesOf(Len(P)) = 1
        /\ \E i \in (LEN_BUF_SIZE + 1)..Len(w.out) :
             rxWire' = AlterByte(w.out, i)
        /\ peer' = [peer EXCEPT !.encrypt_nonce = w.nonce]
        /\ last' = Call("tamper", 0, 0, 0, 0, 0, 0, peer.encrypt_nonce,
                        Len(w.out), Len(P), 0)
        /\ hist' = [hist EXCEPT !.sends = MaxPeerSends, !.sync = FALSE]
        /\ UNCHANGED <<conn, hap_session, crypto_rx, buffer, txWire>>

\* The session goes away while the connection record lives on (pairing
\* teardown by the RTSP handlers): hap_session is cleared or encrypted mode is
\* left; crypto_rx is not touched.
SessionTeardown ==
  \E which \in {"hap_session", "encrypted_mode"} :
    /\ Established(conn)
    /\ conn' = [conn EXCEPT ![which] = FALSE]
    /\ last' = Call("teardown", 0, 0, 0, 0, 0, 0, 0, 0, 0, 0)
    /\ hist' = [hist EXCEPT !.sync = FALSE, !.clean = FALSE]
    /\ UNCHANGED <<hap_session, crypto_rx, buffer, rxWire, txWire, peer>>

\* A call of rtsp_crypto_write_frame by the connection's handler: the socket
\* accepts `budget` bytes before a send fails and `allocs` mallocs succeed
\* (one of the two is enough for the whole payload in every call).
WriteFrame ==
  \E data \in Payloads :
  \E budget \in 0..WireSizeOf(Len(data)), allocs \in 0..FramesOf(Len(data)) :
  \E o \in {rtsp_crypto_write_frame(conn, hap_session, data, budget, allocs)} :
    /\ budget = WireSizeOf(Len(data)) \/ allocs = FramesOf(Len(data))
    /\ hist.writes < MaxWrites
    /\ hap_session' = SessionAfterWrite(hap_session, o.nonce)
    /\ txWire' = o.out
    /\ last' = Call("write", o.ret, o.exit, 0, 0, 0, allocs,
                    hap_session.encrypt_nonce, Len(o.out), Len(data), budget)
    /\ hist' = [hist EXCEPT !.writes = @ + 1, !.enc = @ \o o.enc,
                            !.data = data]
    /\ UNCHANGED <<conn, crypto_rx, buffer, rxWire, peer>>

\* Number of frames put on the wire in a run of the reordering peer.
MaxOrdSends == MaxPeerSends + 1

\* The payloads of the reordering peer: one block each, told apart by a byte.
OrdPayloads == {<<1>>, <<2>>}

\* A frame of the remote writer arrives that was encrypted under the nonce k,
\* which need not be the next one of the stream: a frame replayed (k already
\* used), skipped to (k ahead) or swapped with a neighbour, or the frame in
\* order. The frame is made by the writer's code with its counter at k.
PeerFrameAt ==
  \E P \in OrdPayloads, k \in 0..MaxOrdSends :
    LET w == rtsp_crypto_write_frame(
               [hap_session |-> TRUE, encrypted_mode |-> TRUE],
               [encrypt_key |-> hap_session.decrypt_key, encrypt_nonce |-> k],
               P, WireSizeOf(Len(P)), FramesOf(Len(P)))
    IN  /\ rxWire = <<>>
        /\ peer.sock = "open"
        /\ Established(conn)
        /\ hist.sends < MaxOrdSends
        /\ rxWire' = w.out
        /\ peer' = [peer EXCEPT !.encrypt_nonce = w.nonce]
        /\ last' = Call("frame", w.ret, w.exit, 0, 0, 0, 0, k, Len(w.out),
                        Len(P), 0)
        /\ hist' = [hist EXCEPT !.sends = @ + 1, !.sync = FALSE]
        /\ UNCHANGED <<conn, hap_session, crypto_rx, buffer, txWire>>

\* The inbound direction: the reader, the remote end and the teardown.
Next == ReadBlock \/ PeerWrite \/ PeerJunk \/ PeerTamper \/ SessionTeardown

Spec == Init /\ [][Next]_vars

\* The inbound direction with frames arriving in any order.
NextOrd == ReadBlock \/ PeerFrameAt

SpecOrd == Init /\ [][NextOrd]_vars

\* The payloads written while frames come in: of one frame and of two.
DuplexPayloads == {<<1>>, Alternating(1, 2, MaxPayload)}

\* A call of rtsp_crypto_write_frame by the connection's handler while the
\* inbound direction is at work (one such call in a run): every send is
\* accepted, or a send fails inside the first frame. hist.held: the number
\* of bytes of the inbound frame in progress that the reader holds then.
WriteBetween ==
  \E data \in DuplexPayloads :
  \E budget \in {WireSizeOf(Len(data)), LEN_BUF_SIZE + 1} :
  \E o \in {rtsp_crypto_write_frame(conn, hap_session, data, budget,
                                    FramesOf(Len(data)))} :
    /\ hist.writes = 0
    /\ hap_session' = SessionAfterWrite(hap_session, o.nonce)
    /\ txWire' = o.out
    /\ last' = Call("write", o.ret, o.exit, 0, 0, 0, FramesOf(Len(data)),
                    hap_session.encrypt_nonce, Len(o.out), Len(data), budget)
    /\ hist' = [hist EXCEPT !.writes = @ + 1,
                            !.held = crypto_rx.len_received
                                     + crypto_rx.encrypted_received]
    /\ UNCHANGED <<conn, crypto_rx, buffer, rxWire, peer>>

\* The remote end writes one payload in the run.
PeerWriteOnce == hist.sends = 0 /\ PeerWrite

\* Both directions of one connection: frames come in while responses go out.
NextDuplex == ReadBlock \/ PeerWriteOnce \/ WriteBetween

SpecDuplex == Init /\ [][NextDuplex]_vars

\* A reader call made when the bytes it asks for are there: every recv of the
\* call delivers, and the call takes all it can use.
ReadAvailable ==
  \E bsize \in BufferSizes :
  \E n \in {Consumable(bsize)} :
    /\ n > 0
    /\ ReadCall(bsize, "EAGAIN", TRUE, n)

\* The inbound direction with a remote end that delivers what it writes and a
\* handler that calls the reader again after every return of 0: a call that
\* finds its bytes available is made sooner or later.
NextLive == ReadBlock \/ PeerWriteOnce

SpecLive == Init /\ [][NextLive]_vars /\ WF_vars(ReadAvailable)

\* The outbound direction: the writer and the teardown.
NextTx == WriteFrame \/ SessionTeardown

SpecTx == Init /\ [][NextTx]_vars

(***************************************************************************)
(* The response builder: a call of rtsp_send_response or of                *)
(* rtsp_send_http_response with the arguments drawn at the start.          *)
(***************************************************************************)
\* status_code and status_text: 200 "OK", 404 "Not Found"
StatusLines == { <<200, <<79, 75>>>>, <<404, <<78, 111, 116, 32, 70, 111, 117, 110, 100>>>> }
\* cseq
CSeqs == {7, 12}
\* extra_headers: NULL, "Session: 1\r\n"
ExtraHeaders == { NULLSTR, Str(<<83, 101, 115, 115, 105, 111, 110, 58, 32, 49, 13, 10>>) }
\* body and body_len: no body; "ok", 2; a body with body_len 0; a null body
\* with body_len 2
Bodies == { <<NULLSTR, 0>>, <<Str(<<111, 107>>), 2>>, <<Str(<<111, 107>>), 0>>, <<NULLSTR, 2>> }
\* content_type: "text/x"
ContentTypes == { <<116, 101, 120, 116, 47, 120>> }
\* what an uninitialised byte holds
JunkBytes == {0, 170}
\* why a send returned <= 0: it would block (EAGAIN / EWOULDBLOCK) or the
\* socket failed
SendEvents == {"EAGAIN", "ERROR"}

\* The arguments of a builder call.
Request(status, cseq, extra_headers, body, content_type) ==
  [op |-> "request", status_code |-> status[1], status_text |-> status[2],
   cseq |-> cseq, extra_headers |-> extra_headers, body |-> body[1],
   body_len |-> body[2], content_type |-> content_type]

\* A connection in plain or encrypted mode, with or without session keys, and
\* the arguments of the response to send.
InitResp ==
  /\ conn \in [hap_session : BOOLEAN, encrypted_mode : BOOLEAN]
  /\ hap_session = [encrypt_key |-> 23, decrypt_key |-> 11,
                    encrypt_nonce |-> 0, decrypt_nonce |-> 0]
  /\ crypto_rx = [len_buf |-> <<0, 0>>, len_received |-> 0, block_len |-> 0,
                  encrypted_len |-> 0, encrypted_received |-> 0,
                  encrypted |-> NULL]
  /\ buffer = [i \in 1..RTSP_ENCRYPTED_BLOCK_MAX |-> 0]
  /\ rxWire = <<>>
  /\ txWire = <<>>
  /\ peer = [encrypt_nonce |-> 0, sock |-> "open"]
  /\ \E status \in StatusLines, cseq \in CSeqs, extra_headers \in ExtraHeaders,
        body \in Bodies, content_type \in ContentTypes :
       last = Request(status, cseq, extra_headers, body, content_type)
  /\ hist = [writes |-> 0]

\* The record of a builder call. req: its arguments; ev: what the failing send
\* reported; budget: the bytes the socket accepted before; the rest as in
\* SendOutcome.
Sent(op, req, o, ev, budget, pre_nonce) ==
  [op |-> op, req |-> req, ret |-> o.ret, ev |-> ev, budget |-> budget,
   response |-> o.response, header_len |-> o.header_len, framed |-> o.framed,
   send_failed |-> o.send_failed, pre_nonce |-> pre_nonce]

\* Bytes of socket budget that no response of total_len bytes exceeds.
Enough(total_len) == total_len * (1 + LEN_BUF_SIZE + TAG_LEN)

\* The budgets tried: a send fails at once, after one byte, inside the second
\* frame, or never.
Budgets(total_len) ==
  {0, 1, LEN_BUF_SIZE + TAG_LEN + RTSP_ENCRYPTED_BLOCK_MAX + 1, Enough(total_len)}

\* A call of rtsp_send_response. malloc of the response succeeds or not, the
\* socket accepts `budget` bytes and then a send reports `ev`, `allocs` mallocs
\* of the frame writer succeed. (One failure per call; ev is enumerated only
\* when a send fails.)
SendResponse ==
  /\ last.op = "request"
  /\ \E mallocOk \in BOOLEAN, junk \in JunkBytes, ev \in SendEvents :
     \E total_len \in {Len(RtspHeadText(last.status_code, last.status_text,
                                        last.cseq, last.extra_headers, last.body,
                                        last.body_len)) + last.body_len} :
     \E budget \in Budgets(total_len), allocs \in {0, total_len} :
     \E o \in {rtsp_send_response(conn, hap_session, last.status_code,
                                  last.status_text, last.cseq,
                                  last.extra_headers, last.body, last.body_len,
                                  mallocOk, junk, budget, allocs)} :
       /\ budget = Enough(total_len) \/ allocs = total_len
       /\ mallocOk \/ (budget = Enough(total_len) /\ allocs = total_len)
       /\ o.send_failed \/ ev = "EAGAIN"
       /\ txWire' = o.out
       /\ hap_session' = [hap_session EXCEPT !.encrypt_nonce = o.nonce]
       /\ last' = Sent("response", last, o, ev, budget, hap_session.encrypt_nonce)
       /\ hist' = [hist EXCEPT !.writes = @ + 1]
       /\ UNCHANGED <<conn, crypto_rx, buffer, rxWire, peer>>

\* A call of rtsp_send_http_response, with the same environment.
SendHttpResponse ==
  /\ last.op = "request"
  /\ \E mallocOk \in BOOLEAN, junk \in JunkBytes, ev \in SendEvents :
     \E total_len \in {Len(HttpHeadText(last.status_code, last.status_text,
                                        last.content_type, last.body_len))
                       + last.body_len} :
     \E budget \in Budgets(total_len), allocs \in {0, total_len} :
     \E o \in {rtsp_send_http_response(conn, hap_session, last.status_code,
                                       last.status_text, last.content_type,
                                       last.body, last.body_len,
                                       mallocOk, junk, budget, allocs)} :
       /\ budget = Enough(total_len) \/ allocs = total_len
       /\ mallocOk \/ (budget = Enough(total_len) /\ allocs = total_len)
       /\ o.send_failed \/ ev = "EAGAIN"
       /\ txWire' = o.out
       /\ hap_session' = [hap_session EXCEPT !.encrypt_nonce = o.nonce]
       /\ last' = Sent("http", last, o, ev, budget, hap_session.encrypt_nonce)
       /\ hist' = [hist EXCEPT !.writes = @ + 1]
       /\ UNCHANGED <<conn, crypto_rx, buffer, rxWire, peer>>

\* A call of rtsp_send_ok with the cseq of the request, in the same
\* environment. The record keeps the arguments it passes on.
SendOk ==
  /\ last.op = "request"
  /\ \E mallocOk \in BOOLEAN, junk \in JunkBytes, ev \in SendEvents :
     \E total_len \in {Len(RtspHeadText(200, TxtOK, last.cseq, NULLSTR,
                                        NULLSTR, 0))} :
     \E budget \in Budgets(total_len), allocs \in {0, total_len} :
     \E o \in {rtsp_send_ok(conn, hap_session, last.cseq, mallocOk, junk,
                            budget, allocs)} :
       /\ budget = Enough(total_len) \/ allocs = total_len
       /\ mallocOk \/ (budget = Enough(total_len) /\ allocs = total_len)
       /\ o.send_failed \/ ev = "EAGAIN"
       /\ txWire' = o.out
       /\ hap_session' = [hap_session EXCEPT !.encrypt_nonce = o.nonce]
       /\ last' = Sent("ok",
                       Request(<<200, TxtOK>>, last.cseq, NULLSTR,
                               <<NULLSTR, 0>>, last.content_type),
                       o, ev, budget, hap_session.encrypt_nonce)
       /\ hist' = [hist EXCEPT !.writes = @ + 1]
       /\ UNCHANGED <<conn, crypto_rx, buffer, rxWire, peer>>

\* What a send may return: an error, nothing, a few bytes, or all the bytes
\* it was given.
SEND_WHOLE == 100000
SendReturns == {-1, 0, 1, 3, SEND_WHOLE}

\* The results of the successive sends of one call, the last one ending the
\* loop.
SendResults ==
  {<<r>> : r \in {-1, 0, SEND_WHOLE}}
    \cup {<<a, r>> : a \in SendReturns, r \in {-1, 0, SEND_WHOLE}}
    \cup {<<a, b, r>> : a \in SendReturns, b \in SendReturns,
                        r \in {-1, 0, SEND_WHOLE}}

\* A call of rtsp_send_response on a connection in plain mode, send by send:
\* the response is allocated and the send calls of send_all return rs[1],
\* rs[2], ... (lines 262-286 with the else branch of line 278).
SendResponsePlain ==
  /\ last.op = "request"
  /\ ~Framed(conn)
  /\ \E junk \in JunkBytes, rs \in SendResults, ev \in SendEvents :
     \E response \in {BuildResponse(
                         Snprintf(RTSP_HEADER_SIZE,
                                  RtspHeadText(last.status_code, last.status_text,
                                               last.cseq, last.extra_headers,
                                               last.body, last.body_len)),
                         last.body, last.body_len, junk)} :
     \E o \in {send_all_results(response, rs)} :
       /\ o.ret < 0 \/ ev = "EAGAIN"
       /\ txWire' = o.out
       /\ last' = [op |-> "plain", req |-> last, response |-> response,
                   results |-> rs, ret |-> IF o.ret < 0 THEN -1 ELSE 0,
                   ev |-> ev, sent |-> o.sent, calls |-> o.calls,
                   done |-> o.done]
       /\ hist' = [hist EXCEPT !.writes = @ + 1]
       /\ UNCHANGED <<conn, hap_session, crypto_rx, buffer, rxWire, peer>>

NextResp == SendResponse \/ SendHttpResponse \/ SendOk \/ SendResponsePlain

SpecResp == InitResp /\ [][NextResp]_vars

\* n bytes 'a'
PadText(n) == [i \in 1..n |-> 97]

\* extra_headers of a caller: none, "Session: 1\r\n", and a header line
\* "X:aaa...\r\n" that brings the head near the size of the header array and
\* past it
LongExtraHeaders ==
  {NULLSTR, Str(<<83, 101, 115, 115, 105, 111, 110, 58, 32, 49, 13, 10>>)} \cup
  {Str(<<88, 58>> \o PadText(n) \o CRLF) :
     n \in {RTSP_HEADER_SIZE - 100, RTSP_HEADER_SIZE}}

\* content_type of a caller: "text/x" and a text as long as the header array
LongContentTypes == {<<116, 101, 120, 116, 47, 120>>, PadText(HTTP_HEADER_SIZE)}

\* A connection in plain mode and the arguments of a response whose head may
\* be longer than the local header array.
InitHead ==
  /\ conn \in [hap_session : BOOLEAN, encrypted_mode : {FALSE}]
  /\ hap_session = [encrypt_key |-> 23, decrypt_key |-> 11,
                    encrypt_nonce |-> 0, decrypt_nonce |-> 0]
  /\ crypto_rx = [len_buf |-> <<0, 0>>, len_received |-> 0, block_len |-> 0,
                  encrypted_len |-> 0, encrypted_received |-> 0,
                  encrypted |-> NULL]
  /\ buffer = [i \in 1..RTSP_ENCRYPTED_BLOCK_MAX |-> 0]
  /\ rxWire = <<>>
  /\ txWire = <<>>
  /\ peer = [encrypt_nonce |-> 0, sock |-> "open"]
  /\ \E status \in StatusLines, cseq \in CSeqs,
        extra_headers \in LongExtraHeaders, body \in Bodies,
        content_type \in LongContentTypes :
       last = Request(status, cseq, extra_headers, body, content_type)
  /\ hist = [writes |-> 0]

\* The response builders given texts of every length.
NextHead == SendResponse \/ SendHttpResponse

SpecHead == InitHead /\ [][NextHead]_vars

(***************************************************************************)
(* The request parser on its own: the client composes a request, the       *)
(* caller holds its bytes in memory, and one of the parser's functions is  *)
(* called on them.                                                         *)
(*   peer   : the request as the client composed it (request line, header  *)
(*            lines, terminator, body)                                     *)
(*   buffer : the memory at the pointer passed as data: the bytes of the   *)
(*            request, then what happens to follow them up to a NUL        *)
(*   last   : the call and what it returned                                *)
(***************************************************************************)
\* "SETUP /s RTSP/1.0", an empty line, a line with a NUL inside, and a line
\* of a method alone: "OPTIONS"
RequestLines == {<<83, 69, 84, 85, 80, 32, 47, 115, 32, 82, 84, 83, 80, 47, 49, 46, 48>>, <<>>, <<71, 69, 84, 0, 47, 120>>, <<79, 80, 84, 73, 79, 78, 83>>}

\* header names as the client may write them
HeaderNames ==
  [cseq  |-> [canon |-> <<67, 83, 101, 113>>, lower |-> <<99, 115, 101, 113>>, upper |-> <<67, 83, 69, 81>>],
   cl    |-> [canon |-> <<67, 111, 110, 116, 101, 110, 116, 45, 76, 101, 110, 103, 116, 104>>, lower |-> <<99, 111, 110, 116, 101, 110, 116, 45, 108, 101, 110, 103, 116, 104>>, upper |-> <<67, 79, 78, 84, 69, 78, 84, 45, 76, 69, 78, 71, 84, 72>>],
   ct    |-> [canon |-> <<67, 111, 110, 116, 101, 110, 116, 45, 84, 121, 112, 101>>, lower |-> <<99, 111, 110, 116, 101, 110, 116, 45, 116, 121, 112, 101>>, upper |-> <<67, 79, 78, 84, 69, 78, 84, 45, 84, 89, 80, 69>>],
   other |-> [canon |-> <<49, 50>>, lower |-> <<49, 50>>, upper |-> <<49, 50>>]]

HeaderLine(name, casing, sep, value) ==
  [name |-> name, casing |-> casing, sep |-> sep, value |-> value]

\* "CSeq: 7", "cseq: 7", "CSEQ:7", "CSeq:", "CSeq: x9", "Content-Length: 5",
\* "content-length:15x", "Content-Type: a/B", "CONTENT-TYPE:a/B", "12: q"
HeaderLines ==
  {HeaderLine("cseq", "canon", <<32>>, <<55>>),
   HeaderLine("cseq", "lower", <<32>>, <<55>>),
   HeaderLine("cseq", "upper", <<>>, <<55>>),
   HeaderLine("cseq", "canon", <<>>, <<>>),
   HeaderLine("cseq", "canon", <<32>>, <<120, 57>>),
   HeaderLine("cl", "canon", <<32>>, <<53>>),
   HeaderLine("cl", "lower", <<>>, <<49, 53, 120>>),
   HeaderLine("ct", "canon", <<32>>, <<97, 47, 66>>),
   HeaderLine("ct", "upper", <<>>, <<97, 47, 66>>),
   HeaderLine("other", "canon", <<32>>, <<113>>)}

\* header blocks of no, one and two lines
HeaderBlocks ==
  {<<>>} \cup {<<a>> : a \in HeaderLines}
         \cup {<<a, b>> : a \in HeaderLines, b \in HeaderLines}

\* what ends the header block: "\r\n\r\n", a lone "\r\n", or nothing yet
Terminators == {TxtTerminator, CRLF, <<>>}

\* no body, "HELLO", and a body that reads like a header block:
\* "CSeq: 9\r\nContent-Length: 9\r\nContent-Type: z\r\n\r\nX"
RequestBodies == {<<>>, <<72, 69, 76, 76, 79>>, <<67, 83, 101, 113, 58, 32, 57, 13, 10, 67, 111, 110, 116, 101, 110, 116, 45, 76, 101, 110, 103, 116, 104, 58, 32, 57, 13, 10, 67, 111, 110, 116, 101, 110, 116, 45, 84, 121, 112, 101, 58, 32, 122, 13, 10, 13, 10, 88>>}

\* the bytes that follow the buffer in memory, up to a NUL
Tails == {<<0>>, <<88, 0>>}

\* the text of a header line
RenderLine(h) == HeaderNames[h.name][h.casing] \o <<58>> \o h.sep \o h.value

\* the text of a header block: every line after a "\r\n"
RenderBlock(hs) ==
  IF Len(hs) = 0 THEN <<>>
  ELSE IF Len(hs) = 1 THEN CRLF \o RenderLine(hs[1])
  ELSE CRLF \o RenderLine(hs[1]) \o CRLF \o RenderLine(hs[2])

\* the bytes of a request
Render(r) == r.line \o RenderBlock(r.headers) \o r.term \o r.body

\* The client has composed a request and the caller has received all of it.
InitParse ==
  /\ conn = [hap_session |-> FALSE, encrypted_mode |-> FALSE]
  /\ hap_session = [encrypt_key |-> 23, decrypt_key |-> 11,
                    encrypt_nonce |-> 0, decrypt_nonce |-> 0]
  /\ crypto_rx = [len_buf |-> <<0, 0>>, len_received |-> 0, block_len |-> 0,
                  encrypted_len |-> 0, encrypted_received |-> 0,
                  encrypted |-> NULL]
  /\ rxWire = <<>>
  /\ txWire = <<>>
  /\ \E line \in RequestLines, headers \in HeaderBlocks, term \in Terminators,
        body \in RequestBodies, tail \in Tails :
       /\ peer = [line |-> line, headers |-> headers, term |-> term,
                  body |-> body]
       /\ buffer = Render(peer) \o tail
       /\ last = [op |-> "recv", len |-> Len(Render(peer))]
  /\ hist = [writes |-> 0]

\* A call of rtsp_request_parse(data, len, &req) on the bytes received.
RequestParse ==
  /\ last.op = "recv"
  /\ \E o \in {rtsp_request_parse(buffer, last.len)} :
       last' = [op |-> "parse", len |-> last.len, ret |-> o.ret,
                exit |-> o.exit, req |-> o.req]
  /\ hist' = [hist EXCEPT !.writes = @ + 1]
  /\ UNCHANGED <<conn, hap_session, crypto_rx, buffer, rxWire, txWire, peer>>

\* The lengths a caller that buffers until the terminator appears passes:
\* the first bytes of the request, and its last ones.
ProbeLens(n) == {len \in 0..n : len <= 4 \/ len + 4 >= n}

\* A call of rtsp_find_header_end(data, len) on the first len bytes received.
FindHeaderEnd ==
  /\ last.op = "recv"
  /\ \E len \in ProbeLens(last.len) :
     \E o \in {rtsp_find_header_end(buffer, len)} :
       last' = [op |-> "find", len |-> len, pos |-> o.pos,
                inspected |-> o.inspected]
  /\ hist' = [hist EXCEPT !.writes = @ + 1]
  /\ UNCHANGED <<conn, hap_session, crypto_rx, buffer, rxWire, txWire, peer>>

\* A call of rtsp_parse_cseq(request) on the bytes received.
ParseCSeq ==
  /\ last.op = "recv"
  /\ \E v \in {rtsp_parse_cseq(buffer)} :
       last' = [op |-> "cseq", len |-> last.len, ret |-> v]
  /\ hist' = [hist EXCEPT !.writes = @ + 1]
  /\ UNCHANGED <<conn, hap_session, crypto_rx, buffer, rxWire, txWire, peer>>

\* A call of rtsp_parse_content_length(request) on the bytes received.
ParseContentLength ==
  /\ last.op = "recv"
  /\ \E v \in {rtsp_parse_content_length(buffer)} :
       last' = [op |-> "clen", len |-> last.len, ret |-> v]
  /\ hist' = [hist EXCEPT !.writes = @ + 1]
  /\ UNCHANGED <<conn, hap_session, crypto_rx, buffer, rxWire, txWire, peer>>

NextParse ==
  RequestParse \/ FindHeaderEnd \/ ParseCSeq \/ ParseContentLength

SpecParse == InitParse /\ [][NextParse]_vars

\* Lengths of a header line that stands before the one looked up: none, a
\* short one, and lengths that bring the looked-up line to the end of the
\* parser's header copy and past it.
PadLengths ==
  {0, 16, HEADER_STR_SIZE + 16} \cup
  ((HEADER_STR_SIZE - 48)..(HEADER_STR_SIZE - 20))

\* "\r\nX:" followed by n bytes 'a': a header line of n + 2 bytes
PadBlock(n) ==
  IF n = 0 THEN <<>> ELSE CRLF \o <<88, 58>> \o [i \in 1..n |-> 97]

\* The client has composed a request of one header line after a line of
\* padding, and the caller has received all of it.
InitLong ==
  /\ conn = [hap_session |-> FALSE, encrypted_mode |-> FALSE]
  /\ hap_session = [encrypt_key |-> 23, decrypt_key |-> 11,
                    encrypt_nonce |-> 0, decrypt_nonce |-> 0]
  /\ crypto_rx = [len_buf |-> <<0, 0>>, len_received |-> 0, block_len |-> 0,
                  encrypted_len |-> 0, encrypted_received |-> 0,
                  encrypted |-> NULL]
  /\ rxWire = <<>>
  /\ txWire = <<>>
  /\ \E h \in HeaderLines, pad \in PadLengths :
     \E line \in {<<83, 69, 84, 85, 80, 32, 47, 115, 32, 82, 84, 83, 80, 47, 49, 46, 48>>} :
     \E req \in {line \o PadBlock(pad) \o RenderBlock(<<h>>) \o TxtTerminator} :
       /\ peer = [line |-> line, headers |-> <<h>>, term |-> TxtTerminator,
                  body |-> <<>>, pad |-> pad]
       /\ buffer = req \o <<0>>
       /\ last = [op |-> "recv", len |-> Len(req)]
  /\ hist = [writes |-> 0]

\* The request parser given header blocks of every length.
NextLong == RequestParse

SpecLong == InitLong /\ [][NextLong]_vars


(***************************************************************************)
(* main/main.c: the start of the AirPlay services. Two FreeRTOS tasks run  *)
(* concurrently, app_main and the wifi_monitor_task it creates; both call  *)
(* start_airplay_services, which tests and sets the static flag            *)
(* s_airplay_started without a lock. A step is one statement that reads or *)
(* writes shared state; the scheduler may switch tasks between any two.    *)
(*   buffer : the static memory, s_airplay_started                         *)
(*   last   : for each task the statement it executes next (pc) and its    *)
(*            local variables                                              *)
(*   peer   : the environment: whether the WiFi station is connected and   *)
(*            whether credentials are stored                               *)
(*   hist   : runs, the initialisation sequences completed; failed, a      *)
(*            ptp_clock_init has failed                                    *)
(* The access point and DNS handling of wifi_monitor_task (lines 83-103)   *)
(* and boot_button_task share nothing with the start and are left out.     *)
(***************************************************************************)
\* Completed initialisation sequences counted.
MaxRuns == 3

\* After boot, before app_main waits for the first connection (line 148).
InitMain ==
  /\ conn = [hap_session |-> FALSE, encrypted_mode |-> FALSE]
  /\ hap_session = [encrypt_key |-> 23, decrypt_key |-> 11,
                    encrypt_nonce |-> 0, decrypt_nonce |-> 0]
  /\ crypto_rx = [len_buf |-> <<0, 0>>, len_received |-> 0, block_len |-> 0,
                  encrypted_len |-> 0, encrypted_received |-> 0,
                  encrypted |-> NULL]
  /\ rxWire = <<>>
  /\ txWire = <<>>
  /\ buffer = [s_airplay_started |-> FALSE]
  /\ peer \in [wifi : {FALSE}, credentials : BOOLEAN]
  /\ last = [app_main |-> [pc |-> "wait", connected |-> FALSE],
             wifi_monitor_task |-> [pc |-> "none", was_connected |-> FALSE,
                                    connected |-> FALSE]]
  /\ hist = [runs |-> 0, failed |-> FALSE]

\* static void start_airplay_services(void), lines 31-54, called by task t.
\* pc "test": line 32; "set": line 35; "ptp": lines 39-44, ptp_clock_init
\* succeeding or not; "seq": lines 46-53, the rest of the sequence.
start_airplay_services(t) ==
  \/ /\ last[t].pc = "test"
     /\ last' = [last EXCEPT ![t].pc =
                   IF buffer.s_airplay_started
                   THEN (IF t = "app_main" THEN "idle" ELSE "update")
                   ELSE "set"]
     /\ UNCHANGED <<conn, hap_session, crypto_rx, buffer, rxWire, txWire, peer, hist>>
  \/ /\ last[t].pc = "set"
     /\ buffer' = [buffer EXCEPT !.s_airplay_started = TRUE]
     /\ last' = [last EXCEPT ![t].pc = "ptp"]
     /\ UNCHANGED <<conn, hap_session, crypto_rx, rxWire, txWire, peer, hist>>
  \/ /\ last[t].pc = "ptp"
     /\ last' = [last EXCEPT ![t].pc = "seq"]
     /\ UNCHANGED <<conn, hap_session, crypto_rx, buffer, rxWire, txWire, peer, hist>>
  \/ /\ last[t].pc = "ptp"
     /\ buffer' = [buffer EXCEPT !.s_airplay_started = FALSE]
     /\ last' = [last EXCEPT ![t].pc =
                   IF t = "app_main" THEN "idle" ELSE "update"]
     /\ hist' = [hist EXCEPT !.failed = TRUE]
     /\ UNCHANGED <<conn, hap_session, crypto_rx, rxWire, txWire, peer>>
  \/ /\ last[t].pc = "seq"
     /\ hist.runs < MaxRuns
     /\ hist' = [hist EXCEPT !.runs = @ + 1]
     /\ last' = [last EXCEPT ![t].pc =
                   IF t = "app_main" THEN "idle" ELSE "update"]
     /\ UNCHANGED <<conn, hap_session, crypto_rx, buffer, rxWire, txWire, peer>>

\* void app_main(void), lines 148-168. pc "wait": lines 149-152, the wait
\* returns true when the station is connected; "create": lines 159-161;
\* "check": line 163; "idle": the loop of lines 166-168.
app_main ==
  \/ /\ last.app_main.pc = "wait"
     /\ last' = [last EXCEPT !.app_main.connected =
                                peer.credentials /\ peer.wifi,
                              !.app_main.pc = "create"]
     /\ UNCHANGED <<conn, hap_session, crypto_rx, buffer, rxWire, txWire, peer, hist>>
  \/ /\ last.app_main.pc = "create"
     /\ last' = [last EXCEPT !.app_main.pc = "check",
                              !.wifi_monitor_task.pc = "init"]
     /\ UNCHANGED <<conn, hap_session, crypto_rx, buffer, rxWire, txWire, peer, hist>>
  \/ /\ last.app_main.pc = "check"
     /\ last' = [last EXCEPT !.app_main.pc =
                   IF last.app_main.connected THEN "test" ELSE "idle"]
     /\ UNCHANGED <<conn, hap_session, crypto_rx, buffer, rxWire, txWire, peer, hist>>
  \/ start_airplay_services("app_main")

\* static void wifi_monitor_task(void *), lines 81-119. pc "init": line 82;
\* "delay": lines 91-115, one turn of the loop up to the call or the
\* continue; "update": line 117.
wifi_monitor_task ==
  \/ /\ last.wifi_monitor_task.pc = "init"
     /\ last' = [last EXCEPT !.wifi_monitor_task.was_connected = peer.wifi,
                              !.wifi_monitor_task.pc = "delay"]
     /\ UNCHANGED <<conn, hap_session, crypto_rx, buffer, rxWire, txWire, peer, hist>>
  \/ /\ last.wifi_monitor_task.pc = "delay"
     /\ last' = [last EXCEPT !.wifi_monitor_task.connected = peer.wifi,
                              !.wifi_monitor_task.pc =
                                IF peer.wifi = last.wifi_monitor_task.was_connected
                                THEN "delay"
                                ELSE IF peer.wifi THEN "test" ELSE "update"]
     /\ UNCHANGED <<conn, hap_session, crypto_rx, buffer, rxWire, txWire, peer, hist>>
  \/ /\ last.wifi_monitor_task.pc = "update"
     /\ last' = [last EXCEPT !.wifi_monitor_task.was_connected =
                                last.wifi_monitor_task.connected,
                              !.wifi_monitor_task.pc = "delay"]
     /\ UNCHANGED <<conn, hap_session, crypto_rx, buffer, rxWire, txWire, peer, hist>>
  \/ start_airplay_services("wifi_monitor_task")

\* The station connects or loses its connection (what wifi_is_connected and
\* wifi_wait_connected report).
WifiChange ==
  /\ peer' = [peer EXCEPT !.wifi = ~@]
  /\ UNCHANGED <<conn, hap_session, crypto_rx, buffer, rxWire, txWire, last, hist>>

NextMain == app_main \/ wifi_monitor_task \/ WifiChange

SpecMain == InitMain /\ [][NextMain]_vars

\* The scheduler lets every task that can run take its next step.
SpecMainLive ==
  InitMain /\ [][NextMain]_vars /\ WF_vars(app_main) /\ WF_vars(wifi_monitor_task)

(***************************************************************************)
(* Properties.                                                             *)
(***************************************************************************)
IsPrefix(a, b) == Len(a) <= Len(b) /\ SubSeq(b, 1, Len(a)) = a

RxZero(rx) ==
  /\ rx.len_received = 0
  /\ rx.block_len = 0
  /\ rx.encrypted_len = 0
  /\ rx.encrypted_received = 0

\* The bytes of the frame in progress that the reader holds, in order.
Received(rx) ==
  SubSeq(rx.len_buf, 1, rx.len_received) \o
  (IF rx.encrypted.alloc
   THEN SubSeq(rx.encrypted.mem, 1, rx.encrypted_received) ELSE <<>>)

\* Return statements of the decryption part (lines 110-145).
DecryptExits == {128, 142, 145}

\* The frame in progress delivered in one call: the call made on the state the
\* frame started in, with every byte of the wire available.
OneShot ==
  rtsp_crypto_read_block(
    [hap_session |-> TRUE, encrypted_mode |-> TRUE],
    [hap_session EXCEPT !.decrypt_nonce = hist.start.nonce],
    hist.start.rx, hist.start.buffer, hist.start.wire, hist.start.bsize,
    Len(hist.start.wire), "EAGAIN", TRUE)

\* C1: a valid frame received over any number of calls, split anywhere, with
\* would-block returns in between (hist.clean: the same buffer_size, no recv
\* or malloc failure), ends as the one-call delivery does: same return value,
\* same plaintext in the buffer, same decrypt_nonce, same reset crypto_rx, same
\* bytes left on the wire; until then the calls return 0 and leave the nonce
\* and the buffer alone.
C1_SplitReadEqualsWholeRead ==
  (last.op = "read" /\ hist.clean /\ OneShot.ret > 0) =>
    \/ /\ last.ret = 0
       /\ hap_session.decrypt_nonce = hist.start.nonce
       /\ buffer = hist.start.buffer
    \/ /\ last.ret = OneShot.ret
       /\ buffer = OneShot.buffer
       /\ hap_session.decrypt_nonce = OneShot.nonce
       /\ hap_session.decrypt_nonce = hist.start.nonce + 1
       /\ crypto_rx = OneShot.rx
       /\ rxWire = OneShot.wire

\* a frame was returned by a call that continued a frame begun by earlier calls
C1_Witness ==
  /\ last.op = "read" /\ hist.clean /\ OneShot.ret > 0
  /\ last.ret = OneShot.ret
  /\ last.allocs = 0

\* C2: while the remote writer's frames are read with a buffer of at least the
\* maximum block size and nothing fails (hist.sync), no read is fatal, the
\* plaintexts returned so far are a prefix of the payloads written, each
\* returned frame advanced decrypt_nonce by 1 and each written payload advanced
\* the writer's nonce by ceil(|P| / RTSP_ENCRYPTED_BLOCK_MAX); once everything
\* written is read, the plaintexts returned equal the payloads written and the
\* two nonces are equal.
C2_RoundTrip ==
  hist.sync =>
    /\ last.op = "read" => last.ret >= 0
    /\ IsPrefix(hist.readPlain, hist.sentPlain)
    /\ hap_session.decrypt_nonce = hist.readOk
    /\ peer.encrypt_nonce = hist.sentFrames
    /\ (rxWire = <<>> /\ Idle(crypto_rx)) =>
         /\ hist.readPlain = hist.sentPlain
         /\ hap_session.decrypt_nonce = peer.encrypt_nonce

\* a payload of two frames was written and read back whole
C2_Witness ==
  /\ hist.sync /\ last.op = "read" /\ last.ret > 0
  /\ Len(hist.sentPlain) > RTSP_ENCRYPTED_BLOCK_MAX
  /\ hist.readPlain = hist.sentPlain
  /\ hap_session.decrypt_nonce = 2

\* C3: no encrypt_nonce value is used to encrypt two frames: of the
\* encryptions the writer has made (hist.enc, as <<nonce, chunk>>), no two
\* with different plaintext chunks were made under the same nonce.
C3_NoNonceReuse ==
  \A i, j \in DOMAIN hist.enc :
    hist.enc[i][1] = hist.enc[j][1] => hist.enc[i][2] = hist.enc[j][2]

\* the declared length is rejected by the rule of the frame format
BadLength(declared, buffer_size) ==
  declared = 0 \/ declared > RTSP_ENCRYPTED_BLOCK_MAX \/ declared > buffer_size

\* C4: a call in which the length header becomes complete with a declared
\* length of 0, above the maximum or above buffer_size returns -1, allocates
\* nothing, holds no buffer, takes no byte after the header and leaves
\* len_received = 0 and block_len = 0.
C4_InvalidLengthRejected ==
  [][ ( /\ last'.op = "read"
        /\ Established(conn)
        /\ crypto_rx.len_received < LEN_BUF_SIZE
        /\ last'.moved >= LEN_BUF_SIZE - crypto_rx.len_received
        /\ BadLength(BlockLenOf(crypto_rx'.len_buf), last'.bsize) )
      => ( /\ last'.ret = -1
           /\ last'.allocs = 0
           /\ ~crypto_rx'.encrypted.alloc
           /\ crypto_rx'.len_received = 0
           /\ crypto_rx'.block_len = 0
           /\ last'.moved = LEN_BUF_SIZE - crypto_rx.len_received ) ]_vars

\* a length within the maximum was rejected for exceeding buffer_size
C4_Witness ==
  /\ last.op = "read" /\ last.exit = 62 /\ last.ret = -1
  /\ BlockLenOf(crypto_rx.len_buf) <= RTSP_ENCRYPTED_BLOCK_MAX
  /\ BlockLenOf(crypto_rx.len_buf) > last.bsize
  /\ crypto_rx.len_received = 0

\* C5: a call that ends on a would-block recv (lines 41 and 87) returns 0 and
\* changes neither the session nor the caller's buffer; the bytes held
\* followed by the bytes still on the wire are the same sequence as before the
\* call (none lost, duplicated or reordered), and a buffer held before the
\* call is still held with the same block_len and encrypted_len.
C5_WouldBlockKeepsState ==
  [][ (last'.op = "read" /\ last'.exit \in {41, 87})
      => ( /\ last'.ret = 0
           /\ hap_session' = hap_session
           /\ buffer' = buffer
           /\ Received(crypto_rx') \o rxWire' = Received(crypto_rx) \o rxWire
           /\ IsPrefix(Received(crypto_rx), Received(crypto_rx'))
           /\ crypto_rx.encrypted.alloc =>
                /\ crypto_rx'.encrypted.alloc
                /\ crypto_rx'.block_len = crypto_rx.block_len
                /\ crypto_rx'.encrypted_len = crypto_rx.encrypted_len
                /\ crypto_rx'.len_buf = crypto_rx.len_buf ) ]_vars

\* a would-block return in the middle of the ciphertext
C5_Witness ==
  /\ last.op = "read" /\ last.exit = 87 /\ last.ret = 0
  /\ last.allocs = 0
  /\ crypto_rx.encrypted_received > 1
  /\ crypto_rx.encrypted_received < crypto_rx.encrypted_len

\* C6: a call that decrypts a frame leaves decrypt_nonce exactly 1 greater,
\* holds no ciphertext buffer and has len_received, block_len, encrypted_len
\* and encrypted_received at 0.
C6_SuccessResets ==
  [][ (last'.op = "read" /\ last'.delivered > 0)
      => ( /\ hap_session'.decrypt_nonce = hap_session.decrypt_nonce + 1
           /\ ~crypto_rx'.encrypted.alloc
           /\ RxZero(crypto_rx') ) ]_vars

C6_Witness ==
  /\ last.op = "read" /\ last.delivered > 0 /\ last.ret = last.delivered
  /\ hap_session.decrypt_nonce = 1

\* The frame that the calls since hist.start have read, when the last call
\* reached the decryption: its header and as many bytes as the header declares.
FrameRead ==
  SubSeq(hist.start.wire, 1,
         Min(Len(hist.start.wire),
             LEN_BUF_SIZE + BlockLenOf(crypto_rx.len_buf) + TAG_LEN))

\* f is a valid one-frame encryption under `nonce` but for one byte of its
\* ciphertext or tag
AlteredFrame(f, nonce) ==
  \E P \in Payloads :
    /\ P # <<>> /\ FramesOf(Len(P)) = 1
    /\ LET v == LenBufOf(Len(P)) \o
                aead_encrypt(P, LenBufOf(Len(P)), nonce, hap_session.decrypt_key)
       IN  /\ Len(f) = Len(v)
           /\ \E i \in (LEN_BUF_SIZE + 1)..Len(v) :
                /\ f[i] # v[i]
                /\ \A j \in 1..Len(v) : j # i => f[j] = v[j]

\* C7: when the frame that reached the decryption is a valid frame with one
\* byte of ciphertext or tag altered, the call returns -1, decrypts nothing
\* (the caller's buffer keeps its bytes or gets zeros), leaves decrypt_nonce
\* as it was and holds no ciphertext buffer.
C7_AlteredFrameRejected ==
  ( /\ last.op = "read" /\ last.exit \in DecryptExits
    /\ AlteredFrame(FrameRead, hist.start.nonce) )
  => /\ last.ret = -1
     /\ last.delivered = 0
     /\ \A i \in DOMAIN buffer : buffer[i] \in {hist.start.buffer[i], 0}
     /\ hap_session.decrypt_nonce = hist.start.nonce
     /\ ~crypto_rx.encrypted.alloc

C7_Witness ==
  /\ last.op = "read" /\ last.exit \in DecryptExits
  /\ AlteredFrame(FrameRead, hist.start.nonce)
  /\ last.ret = -1
  /\ last.allocs = 0

\* C8: after a call of rtsp_crypto_read_block that returns -1 no ciphertext
\* buffer is held.
C8_FatalReleasesBuffer ==
  (last.op = "read" /\ last.ret = -1) => ~crypto_rx.encrypted.alloc

\* C9: after a call of rtsp_crypto_read_block that returns -1, len_received,
\* block_len, encrypted_len and encrypted_received are 0.
C9_FatalResetsState ==
  (last.op = "read" /\ last.ret = -1) => RxZero(crypto_rx)

\* Number of complete frames at the head of a byte sequence.
RECURSIVE CompleteFrames(_)
CompleteFrames(w) ==
  IF Len(w) < LEN_BUF_SIZE THEN 0
  ELSE LET size == LEN_BUF_SIZE + BlockLenOf(w) + TAG_LEN
       IN  IF Len(w) < size THEN 0
           ELSE 1 + CompleteFrames(SubSeq(w, size + 1, Len(w)))

\* C10: after a writer call, encrypt_nonce has grown by the number of frames
\* written completely (header and ciphertext with tag); when the socket
\* accepts fewer bytes than the payload's frames take, the call returns -1 and
\* nothing is written after the failing send; a call that returns 0 wrote
\* every frame.
C10_NonceCountsWrittenFrames ==
  last.op = "write" =>
    /\ hap_session.encrypt_nonce = last.pre_nonce + CompleteFrames(txWire)
    /\ (Established(conn) /\ last.budget < WireSizeOf(last.data_len)) =>
         /\ last.ret = -1
         /\ Len(txWire) = last.budget
    /\ last.ret = 0 =>
         /\ Len(txWire) = WireSizeOf(last.data_len)
         /\ CompleteFrames(txWire) = FramesOf(last.data_len)

\* the send failed inside the second frame of a payload
C10_Witness ==
  /\ last.op = "write" /\ last.ret = -1 /\ last.exit = 190
  /\ CompleteFrames(txWire) = 1
  /\ Len(txWire) > LEN_BUF_SIZE + RTSP_ENCRYPTED_BLOCK_MAX + TAG_LEN
  /\ hap_session.encrypt_nonce = last.pre_nonce + 1

(***************************************************************************)
(* The frames of a writer call.                                            *)
(***************************************************************************)
\* The byte sequence w cut into frames by the wire format: a 2-byte
\* little-endian length n, then n + TAG_LEN bytes. `rest` is what is left
\* when no whole frame follows.
RECURSIVE SplitFrames(_, _)
SplitFrames(w, acc) ==
  IF Len(w) < LEN_BUF_SIZE THEN [frames |-> acc, rest |-> w]
  ELSE LET n    == w[1] + 256 * w[2]
           size == LEN_BUF_SIZE + n + TAG_LEN
       IN  IF Len(w) < size THEN [frames |-> acc, rest |-> w]
           ELSE SplitFrames(SubSeq(w, size + 1, Len(w)),
                            Append(acc, [n |-> n,
                                         len_buf |-> SubSeq(w, 1, LEN_BUF_SIZE),
                                         enc |-> SubSeq(w, LEN_BUF_SIZE + 1, size)]))

\* The plaintext chunks of frames F, the k-th one decrypted under nonce
\* first + k - 1, concatenated.
RECURSIVE ChunksOf(_, _, _)
ChunksOf(F, first, key) ==
  IF F = <<>> THEN <<>>
  ELSE aead_decrypt(F[1].enc, F[1].len_buf, first, key).m \o
       ChunksOf(Tail(F), first + 1, key)

\* ceil(L / RTSP_ENCRYPTED_BLOCK_MAX)
CeilBlocks(L) ==
  IF L % RTSP_ENCRYPTED_BLOCK_MAX = 0
  THEN L \div RTSP_ENCRYPTED_BLOCK_MAX
  ELSE L \div RTSP_ENCRYPTED_BLOCK_MAX + 1

\* C11: a writer call that returns 0 for a payload of L bytes has written
\* exactly ceil(L / RTSP_ENCRYPTED_BLOCK_MAX) frames and nothing else; every
\* frame is its 2-byte little-endian length n, 1 <= n <= the maximum, followed
\* by n + TAG_LEN bytes; every frame but the last has the maximum length; the
\* chunks decrypted in order and concatenated are the payload; for L = 0 a
\* call on an established session writes nothing and returns 0.
C11_WriterChunksPayload ==
  (last.op = "write" /\ last.exit # 152) =>
    LET S == SplitFrames(txWire, <<>>)
        F == S.frames
    IN  /\ last.data_len = 0 => (last.ret = 0 /\ txWire = <<>>)
        /\ last.ret = 0 =>
             /\ S.rest = <<>>
             /\ Len(F) = CeilBlocks(last.data_len)
             /\ \A k \in DOMAIN F :
                  /\ F[k].n \in 1..RTSP_ENCRYPTED_BLOCK_MAX
                  /\ F[k].len_buf = <<F[k].n % 256, F[k].n \div 256>>
                  /\ Len(F[k].enc) = F[k].n + TAG_LEN
                  /\ k < Len(F) => F[k].n = RTSP_ENCRYPTED_BLOCK_MAX
             /\ ChunksOf(F, last.pre_nonce, hap_session.encrypt_key)
                  = hist.data

\* a payload longer than one block was written as two frames
C11_Witness ==
  /\ last.op = "write" /\ last.ret = 0
  /\ last.data_len > RTSP_ENCRYPTED_BLOCK_MAX
  /\ Len(hist.data) = last.data_len
  /\ Len(SplitFrames(txWire, <<>>).frames) = 2
  /\ Len(txWire) = WireSizeOf(last.data_len)

(***************************************************************************)
(* Frame order.                                                            *)
(***************************************************************************)
\* f is the frame the writer makes of a one-block payload under nonce k
FrameUnder(f, k) ==
  \E P \in OrdPayloads :
    /\ f = LenBufOf(Len(P)) \o
           aead_encrypt(P, LenBufOf(Len(P)), k, hap_session.decrypt_key)

\* C12: a call that reaches the decryption with a frame encrypted under a
\* nonce other than the reader's decrypt_nonce at the call (a frame replayed,
\* skipped to or swapped) returns -1, delivers nothing and leaves decrypt_nonce
\* as it was; a call that delivers plaintext read a frame encrypted under the
\* reader's decrypt_nonce at the call, and that nonce is not one of a frame
\* returned before (hist.readOk counts the frames returned so far).
C12_FramesAcceptedInOrder ==
  (last.op = "read" /\ last.exit \in DecryptExits) =>
    /\ (\E k \in 0..MaxOrdSends :
          k # last.pre_nonce /\ FrameUnder(FrameRead, k))
       => /\ last.ret = -1
          /\ last.delivered = 0
          /\ hap_session.decrypt_nonce = last.pre_nonce
    /\ last.delivered > 0 => FrameUnder(FrameRead, last.pre_nonce)
    /\ last.ret > 0 =>
         \A k \in 0..MaxOrdSends :
           FrameUnder(FrameRead, k) => k >= hist.readOk - 1

\* the first frame was accepted and then presented again (a replay)
C12_Witness ==
  /\ last.op = "read" /\ last.exit = 128 /\ last.ret = -1
  /\ hist.readOk = 1
  /\ last.pre_nonce = 1
  /\ FrameUnder(FrameRead, 0)

(***************************************************************************)
(* The response builder: properties.                                       *)
(***************************************************************************)
IsBuilderCall == last.op \in {"response", "http"}

\* C13: a builder call in which a send would block (EAGAIN) does not return
\* the fatal -1.
C13_WouldBlockSendNotFatal ==
  (IsBuilderCall /\ last.send_failed /\ last.ev = "EAGAIN") => last.ret # -1

\* The j-th frame the wire format prescribes for the bytes `data` when the
\* first frame is encrypted under the nonce `first`: the chunk of at most
\* RTSP_ENCRYPTED_BLOCK_MAX bytes, its little-endian length, its ciphertext
\* and tag.
FrameOfData(data, j, first, key) ==
  LET from == (j - 1) * RTSP_ENCRYPTED_BLOCK_MAX
      n    == Min(RTSP_ENCRYPTED_BLOCK_MAX, Len(data) - from)
      hdr  == <<n % 256, n \div 256>>
  IN  hdr \o aead_encrypt(SubSeq(data, from + 1, from + n), hdr,
                          first + j - 1, key)

\* w is the beginning of the frames of `data`
IsFramePrefix(w, data, first, key) ==
  LET size   == LEN_BUF_SIZE + RTSP_ENCRYPTED_BLOCK_MAX + TAG_LEN
      frames == [j \in 1..CeilBlocks(Len(data)) |->
                   FrameOfData(data, j, first, key)]
  IN  /\ Len(w) <= WireSizeOf(Len(data))
      /\ \A i \in 1..Len(w) :
           w[i] = frames[((i - 1) \div size) + 1][((i - 1) % size) + 1]

\* C14: after a builder call on a connection in encrypted mode, either nothing
\* was written and the call returned -1, or the frame writer was called with
\* session keys present and the bytes written are the encrypted frames of
\* the response, in order, or a beginning of them (when a send or a malloc
\* failed); a call that returns 0 wrote every frame of the response.
C14_EncryptedModeWritesFramesOnly ==
  (IsBuilderCall /\ conn.encrypted_mode) =>
    \/ txWire = <<>> /\ last.ret = -1
    \/ /\ last.framed /\ conn.hap_session
       /\ IsFramePrefix(txWire, last.response, last.pre_nonce,
                        hap_session.encrypt_key)
       /\ last.ret = 0 => Len(txWire) = WireSizeOf(Len(last.response))

\* a response with a body was written whole, in frames, in encrypted mode
C14_Witness ==
  /\ IsBuilderCall /\ conn.encrypted_mode /\ last.framed
  /\ last.ret = 0
  /\ last.req.body_len > 0
  /\ Len(last.response) = last.header_len + last.req.body_len
  /\ Len(txWire) = WireSizeOf(Len(last.response))
  /\ hap_session.encrypt_nonce = last.pre_nonce + CeilBlocks(Len(last.response))

\* the offsets at which a "\r\n\r\n" lies wholly within the first len bytes
TerminatorsWithin(m, len) ==
  {i \in 0..(len - 4) : SubSeq(m, i + 1, i + 4) = TxtTerminator}

\* C20: rtsp_find_header_end(data, len) returns the position of the first
\* CR LF CR LF that lies wholly within the first len bytes, NULL when there
\* is none (so for every len below 4), and reads no byte at an index >= len.
C20_FindHeaderEndFirstTerminator ==
  last.op = "find" =>
    /\ last.pos = (IF TerminatorsWithin(buffer, last.len) = {} THEN NULLPTR
                   ELSE Least(TerminatorsWithin(buffer, last.len)))
    /\ last.len < 4 => last.pos = NULLPTR
    /\ \A q \in last.inspected : q >= 0 /\ q < last.len

\* a terminator found that ends with the last byte of the len given, after
\* header bytes, in a buffer that goes on
C20_Witness ==
  /\ last.op = "find"
  /\ last.pos > 0
  /\ last.pos + 4 = last.len
  /\ last.len < Len(Render(peer))

\* the offset of the first "\r\n\r\n" within the first len bytes
FirstTerminator(m, len) == Least(TerminatorsWithin(m, len))

\* C15: whenever rtsp_request_parse succeeds on a buffer of len bytes, the
\* body view starts 4 bytes after the start of the first CR LF CR LF of the
\* buffer and body_len is len minus that offset, whatever Content-Length says.
C15_BodyViewAfterFirstTerminator ==
  (last.op = "parse" /\ last.ret = 0) =>
    /\ last.req.body = FirstTerminator(buffer, last.len) + 4
    /\ last.req.body_len = last.len - (FirstTerminator(buffer, last.len) + 4)

\* the request with its header names in the canonical casing and one space
\* after every colon
Canonical(r) ==
  [r EXCEPT !.headers = [i \in DOMAIN r.headers |->
                           [r.headers[i] EXCEPT !.casing = "canon",
                                                !.sep = <<32>>]]]

\* what rtsp_request_parse gives for the request r followed by the bytes that
\* follow the buffer
ParseOf(r) ==
  rtsp_request_parse(Render(r) \o SubSeq(buffer, last.len + 1, Len(buffer)),
                     Len(Render(r)))

\* the request has a request line and a terminator, and h is its first header
FirstHeaderIs(h) ==
  /\ peer.line = <<83, 69, 84, 85, 80, 32, 47, 115, 32, 82, 84, 83, 80, 47, 49, 46, 48>>
  /\ peer.term = TxtTerminator
  /\ Len(peer.headers) >= 1
  /\ peer.headers[1].name = h.name
  /\ peer.headers[1].value = h.value

\* C16: header lookup ignores the letter case of the header name and the
\* white space after the colon: a request parses to the same cseq,
\* content_length and content_type as the same request with canonical header
\* names followed by one space, and "cseq: 7", "CSeq: 7", "CSEQ:7" give 7.
C16_HeaderLookupIgnoresCase ==
  (last.op = "parse" /\ last.ret = 0) =>
    /\ ParseOf(Canonical(peer)).ret = 0
    /\ last.req.cseq = ParseOf(Canonical(peer)).req.cseq
    /\ last.req.content_length = ParseOf(Canonical(peer)).req.content_length
    /\ last.req.content_type = ParseOf(Canonical(peer)).req.content_type
    /\ FirstHeaderIs([name |-> "cseq", value |-> <<55>>]) => last.req.cseq = 7
    /\ FirstHeaderIs([name |-> "cl", value |-> <<53>>])
         => last.req.content_length = SizeOfInt(5)
    /\ FirstHeaderIs([name |-> "ct", value |-> <<97, 47, 66>>])
         => last.req.content_type = <<97, 47, 66>>

\* "CSEQ:7" and "content-length:15x" were looked up: upper and lower case, no
\* space after the colon
C16_Witness ==
  /\ last.op = "parse" /\ last.ret = 0
  /\ FirstHeaderIs([name |-> "cseq", value |-> <<55>>])
  /\ peer.headers[1].casing = "upper" /\ peer.headers[1].sep = <<>>
  /\ Len(peer.headers) = 2
  /\ peer.headers[2].name = "cl" /\ peer.headers[2].casing = "lower"
  /\ last.req.cseq = 7
  /\ last.req.content_length = SizeOfInt(15)

\* The header block of the buffer, read by lines: the bytes before the first
\* terminator, and the offsets at which its lines start.
HeaderBlockOf(m, len) == SubSeq(m, 1, FirstTerminator(m, len))

LineStarts(hb) ==
  {0} \cup {q + 2 : q \in {x \in 0..(Len(hb) - 2) : Occurs(hb, x, CRLF)}}

\* the end of the line that starts at p
LineEnd(hb, p) ==
  Least({q \in p..Len(hb) : q = Len(hb) \/ Occurs(hb, q, CRLF)})

\* the lines of the block that start with the key, letter case ignored
LinesWith(hb, key) ==
  {p \in LineStarts(hb) :
     /\ LineEnd(hb, p) - p >= Len(key)
     /\ \A k \in 1..Len(key) : tolower(hb[p + k]) = tolower(key[k])}

\* the value of the first such line: what follows the key on that line,
\* without the blanks before it
ValueOf(hb, key) ==
  LET p == Least(LinesWith(hb, key))
      e == LineEnd(hb, p)
      v == Least({q \in (p + Len(key))..e :
                    q = e \/ (hb[q + 1] # 32 /\ hb[q + 1] # 9)})
  IN  SubSeq(hb, v + 1, e)

\* the leading decimal integer of a value, 0 when it starts with no digit
LeadingDecimal(val) ==
  LET n == Least({k \in 0..Len(val) : k = Len(val) \/ ~isdigit(val[k + 1])})
  IN  DecimalValue(SubSeq(val, 1, n))

\* C17: in a successfully parsed request cseq is 1 without a CSeq header and
\* content_length is 0 without a Content-Length header; with the header
\* present the field is the leading decimal integer of the header's value,
\* and 0 when the value starts with no number.
C17_DefaultsAndLeadingDecimal ==
  (last.op = "parse" /\ last.ret = 0) =>
    /\ last.req.cseq =
         (IF LinesWith(HeaderBlockOf(buffer, last.len), KeyCSeq) = {} THEN 1
          ELSE LeadingDecimal(ValueOf(HeaderBlockOf(buffer, last.len), KeyCSeq)))
    /\ last.req.content_length =
         (IF LinesWith(HeaderBlockOf(buffer, last.len), KeyContentLength) = {}
          THEN SizeOfInt(0)
          ELSE SizeOfInt(LeadingDecimal(ValueOf(HeaderBlockOf(buffer, last.len),
                                                KeyContentLength))))

\* The request line of the buffer (its bytes before the first CR LF, or all
\* len bytes) holds a method token: a byte that is no white space, before
\* any NUL.
RequestLineHasMethod(m, len) ==
  \E q \in 0..(LineEnd(SubSeq(m, 1, len), 0) - 1) :
    /\ ~isspace(m[q + 1]) /\ m[q + 1] # 0
    /\ \A k \in 0..(q - 1) : m[k + 1] # 0

\* C18: rtsp_request_parse returns -1 when the buffer has no CR LF CR LF
\* within its len bytes or when the request line has no method token, and
\* returns 0 only when there is a terminator and a method token was read from
\* the request line; a failed parse leaves no field filled.
C18_ParseFailsWithoutTerminatorOrMethod ==
  last.op = "parse" =>
    /\ last.ret \in {0, -1}
    /\ TerminatorsWithin(buffer, last.len) = {} => last.ret = -1
    /\ ~RequestLineHasMethod(buffer, last.len) => last.ret = -1
    /\ last.ret = -1 => last.req = ZeroRequest

\* the request with another body
WithBody(r, b) == [r EXCEPT !.body = b]

\* the request with the body b has the header block of the buffer
SameHeaderBlock(b) ==
  /\ TerminatorsWithin(Render(WithBody(peer, b)), Len(Render(WithBody(peer, b)))) # {}
  /\ HeaderBlockOf(Render(WithBody(peer, b)), Len(Render(WithBody(peer, b))))
       = HeaderBlockOf(buffer, last.len)

\* C19: header fields are never taken from beyond the header terminator: a
\* buffer with the same header block (the bytes before the first CR LF CR LF)
\* and another body parses to the same cseq, content_length and content_type,
\* also when a body holds "CSeq: 9" or "Content-Length: 9".
C19_HeaderFieldsIgnoreBody ==
  (last.op = "parse" /\ last.ret = 0) =>
    \A b \in RequestBodies :
      (SameHeaderBlock(b) /\ ParseOf(WithBody(peer, b)).ret = 0) =>
        /\ ParseOf(WithBody(peer, b)).req.cseq = last.req.cseq
        /\ ParseOf(WithBody(peer, b)).req.content_length = last.req.content_length
        /\ ParseOf(WithBody(peer, b)).req.content_type = last.req.content_type

\* a request without headers whose body reads "CSeq: 9 ..., Content-Length: 9
\* ..." was parsed to the defaults
C19_Witness ==
  /\ last.op = "parse" /\ last.ret = 0
  /\ peer.headers = <<>>
  /\ peer.term = TxtTerminator
  /\ Len(peer.line) = 17
  /\ Len(peer.body) > 5
  /\ strstr(peer.body \o <<0>>, 0, KeyCSeq) = 0
  /\ last.req.cseq = 1
  /\ last.req.content_length = SizeOfInt(0)
  /\ last.req.content_type = <<>>
  /\ last.req.body_len = Len(peer.body)

\* The first line of the buffer alone, as a C string: its bytes before the
\* first CR LF, closed by a NUL.
FirstLineOnly(m, len) == SubSeq(m, 1, LineEnd(SubSeq(m, 1, len), 0)) \o <<0>>

\* C21: the first line of the request alone determines method and path:
\* method is its first white-space separated token (at most 31 characters),
\* path its second (at most 255, empty when there is none), and no byte after
\* the first CR LF of the request becomes part of method or path.
C21_MethodAndPathFromFirstLine ==
  (last.op = "parse" /\ last.ret = 0) =>
    /\ last.req.method = sscanf_method_path(FirstLineOnly(buffer, last.len)).method
    /\ last.req.path = sscanf_method_path(FirstLineOnly(buffer, last.len)).path

\* "RTSP/1.0 200 OK\r\nCSeq: 7\r\nServer: AirTunes/377.40.00\r\n\r\n" and the
\* same with CSeq: 12
PlainOk(cseq) ==
  IF cseq = 7
  THEN <<82, 84, 83, 80, 47, 49, 46, 48, 32, 50, 48, 48, 32, 79, 75, 13, 10, 67, 83, 101, 113, 58, 32, 55, 13, 10, 83, 101, 114, 118, 101, 114, 58, 32, 65, 105, 114, 84, 117, 110, 101, 115, 47, 51, 55, 55, 46, 52, 48, 46, 48, 48, 13, 10, 13, 10>>
  ELSE <<82, 84, 83, 80, 47, 49, 46, 48, 32, 50, 48, 48, 32, 79, 75, 13, 10, 67, 83, 101, 113, 58, 32, 49, 50, 13, 10, 83, 101, 114, 118, 101, 114, 58, 32, 65, 105, 114, 84, 117, 110, 101, 115, 47, 51, 55, 55, 46, 52, 48, 46, 48, 48, 13, 10, 13, 10>>

\* a call of rtsp_send_response or rtsp_send_ok with 200 "OK", no extra
\* headers and no body, on a connection in plain mode
IsPlainOkCall ==
  /\ last.op \in {"response", "ok"}
  /\ ~conn.encrypted_mode
  /\ last.req.status_code = 200 /\ last.req.status_text = TxtOK
  /\ last.req.extra_headers.null
  /\ last.req.body.null /\ last.req.body_len = 0

\* C22: rtsp_send_response with 200 "OK", no extra headers and no body in
\* plain mode, and rtsp_send_ok, hand exactly "RTSP/1.0 200 OK\r\nCSeq: <n>\r\n
\* Server: AirTunes/377.40.00\r\n\r\n" to the socket: no Content-Length
\* header and no byte after the blank line (a beginning of these bytes when a
\* send fails, nothing when the response cannot be allocated).
C22_PlainOkBytes ==
  IsPlainOkCall =>
    /\ IsPrefix(txWire, PlainOk(last.req.cseq))
    /\ last.ret = 0 <=> txWire = PlainOk(last.req.cseq)
    /\ last.response # <<>> => last.response = PlainOk(last.req.cseq)

\* rtsp_send_ok has sent the whole response with CSeq: 12 in plain mode
C22_Witness ==
  /\ IsPlainOkCall /\ last.op = "ok"
  /\ last.req.cseq = 12
  /\ last.ret = 0
  /\ txWire = PlainOk(12)

\* a builder call that has built its response
HasResponse == last.op \in {"response", "http", "ok"} /\ last.response # <<>>

\* the number of bytes of the response after its first blank line
BytesAfterBlankLine(resp) == Len(resp) - (FirstTerminator(resp, Len(resp)) + 4)

\* the length of the body the caller gave: none behind a null pointer
ActualBodyLen(req) == IF req.body.null THEN 0 ELSE req.body_len

\* the head of the response has the line "Content-Length: <n>"
HasContentLength(resp, n) ==
  \E p \in LinesWith(HeaderBlockOf(resp, Len(resp)), KeyContentLength) :
    SubSeq(resp, p + 1, LineEnd(HeaderBlockOf(resp, Len(resp)), p))
      = KeyContentLength \o <<32>> \o
        (IF n < 10 THEN <<48 + n>> ELSE <<48 + (n \div 10), 48 + (n % 10)>>)

\* C23: in every response built by rtsp_send_response or
\* rtsp_send_http_response the bytes after the blank line are as many as the
\* body has, and when there are any the head has a Content-Length header with
\* exactly that number, for every extra_headers, body pointer and body_len.
C23_ContentLengthIsBodyLength ==
  HasResponse =>
    /\ BytesAfterBlankLine(last.response) = ActualBodyLen(last.req)
    /\ BytesAfterBlankLine(last.response) > 0
         => HasContentLength(last.response, BytesAfterBlankLine(last.response))

\* a call of a builder on a connection in plain mode whose response was
\* allocated
IsPlainBuilderCall == IsBuilderCall /\ ~last.framed /\ last.response # <<>>

\* C24: in plain mode the response is sent by a loop of send calls: whatever
\* the sends return, the bytes the socket accepted are a beginning of the
\* response, each byte once and in order; the loop ends after at most one
\* send per byte, since every send that succeeds accepts at least one; and
\* the builder returns 0 exactly when all total_len bytes were accepted, -1
\* otherwise.
C24_PlainSendLoop ==
  /\ last.op = "plain" =>
       /\ last.done
       /\ txWire = SubSeq(last.response, 1, last.sent)
       /\ last.sent <= Len(last.response)
       /\ last.calls <= Len(last.response)
       /\ last.calls <= Len(last.results) + 1
       /\ last.ret \in {0, -1}
       /\ last.ret = 0 <=> last.sent = Len(last.response)
       /\ send_all_plain(last.response, last.sent).out = txWire
       /\ send_all_plain(last.response, last.sent).ok <=> last.ret = 0
  /\ IsPlainBuilderCall =>
       /\ IsPrefix(txWire, last.response)
       /\ last.ret \in {0, -1}
       /\ last.ret = 0 <=> Len(txWire) = Len(last.response)

\* a response went out in three partial sends: 1 byte, 3 bytes, the rest
C24_Witness ==
  /\ last.op = "plain"
  /\ last.results = <<1, 3, SEND_WHOLE>>
  /\ last.calls = 3
  /\ last.ret = 0
  /\ txWire = last.response
  /\ Len(last.response) > 4

\* A step of the reader leaves both keys and encrypt_nonce as they were.
ReadKeepsOutbound ==
  last'.op = "read" =>
    /\ hap_session'.encrypt_key = hap_session.encrypt_key
    /\ hap_session'.decrypt_key = hap_session.decrypt_key
    /\ hap_session'.encrypt_nonce = hap_session.encrypt_nonce
    /\ txWire' = txWire

\* A step of the writer leaves both keys, decrypt_nonce, the partial-read
\* state, the caller's buffer and the bytes still to be received as they were.
WriteKeepsInbound ==
  last'.op = "write" =>
    /\ hap_session'.encrypt_key = hap_session.encrypt_key
    /\ hap_session'.decrypt_key = hap_session.decrypt_key
    /\ hap_session'.decrypt_nonce = hap_session.decrypt_nonce
    /\ crypto_rx' = crypto_rx
    /\ buffer' = buffer
    /\ rxWire' = rxWire

\* With writes in between, what was read is what the remote end wrote.
ReadUndisturbed ==
  hist.sync =>
    /\ IsPrefix(hist.readPlain, hist.sentPlain)
    /\ hap_session.decrypt_nonce = hist.readOk
    /\ (rxWire = <<>> /\ Idle(crypto_rx)) => hist.readPlain = hist.sentPlain

\* C25: the session keys are never changed and the two directions are
\* independent: rtsp_crypto_read_block leaves encrypt_key, decrypt_key and
\* encrypt_nonce unchanged, rtsp_crypto_write_frame leaves encrypt_key,
\* decrypt_key, decrypt_nonce and all of crypto_rx unchanged, and a write
\* between two calls of a partly received read does not disturb the frame
\* being assembled.
C25_DirectionsIndependent ==
  /\ [][ReadKeepsOutbound /\ WriteKeepsInbound]_vars
  /\ []ReadUndisturbed

\* a frame whose reception a write interrupted has been read whole: the
\* writer sent a frame of its own while the reader held the header and a part
\* of the ciphertext, and a later read returned the plaintext
C25_Witness ==
  /\ last.op = "read" /\ last.ret > 0
  /\ hist.sync
  /\ hist.writes = 1
  /\ hap_session.encrypt_nonce > 0
  /\ hist.held > LEN_BUF_SIZE
  /\ hist.readPlain = hist.sentPlain

\* A reader step that allocates: no buffer was held and the header was not
\* complete before it, the declared length is valid for the call's
\* buffer_size, and a buffer still held after the call has declared length +
\* tag bytes.
AllocatesOnHeaderComplete ==
  (last'.op = "read" /\ last'.allocs > 0) =>
    /\ last'.allocs = 1
    /\ ~crypto_rx.encrypted.alloc
    /\ crypto_rx.len_received < LEN_BUF_SIZE
    /\ crypto_rx'.encrypted.alloc =>
         /\ crypto_rx'.len_received = LEN_BUF_SIZE
         /\ ~LengthInvalid(BlockLenOf(crypto_rx'.len_buf), last'.bsize)
         /\ crypto_rx'.block_len = BlockLenOf(crypto_rx'.len_buf)
         /\ crypto_rx'.encrypted_len = crypto_rx'.block_len + TAG_LEN
         /\ Len(crypto_rx'.encrypted.mem) = crypto_rx'.block_len + TAG_LEN

\* A reader step that finds a buffer held allocates nothing and, while the
\* frame goes on, keeps the buffer's size, the header and the lengths decoded
\* from it.
ContinuesInSameBuffer ==
  (last'.op = "read" /\ crypto_rx.encrypted.alloc) =>
    /\ last'.allocs = 0
    /\ crypto_rx'.encrypted.alloc =>
         /\ crypto_rx'.len_buf = crypto_rx.len_buf
         /\ crypto_rx'.block_len = crypto_rx.block_len
         /\ crypto_rx'.encrypted_len = crypto_rx.encrypted_len
         /\ Len(crypto_rx'.encrypted.mem) = Len(crypto_rx.encrypted.mem)
         /\ crypto_rx'.encrypted_received >= crypto_rx.encrypted_received

\* One buffer per frame: at most one allocation since the frame started,
\* exactly one when a buffer is held or the frame has been decrypted.
OneBufferPerFrame ==
  /\ hist.allocs <= 1
  /\ crypto_rx.encrypted.alloc => hist.allocs = 1
  /\ (last.op = "read" /\ last.exit \in DecryptExits) => hist.allocs = 1

\* C26: for each inbound frame the ciphertext buffer is allocated exactly
\* once, on the call in which the length header becomes complete and valid,
\* with declared length + tag bytes; the calls that continue the frame after
\* a would-block return reuse that buffer and neither allocate again nor
\* decode the length again.
C26_BufferAllocatedOncePerFrame ==
  /\ [][AllocatesOnHeaderComplete /\ ContinuesInSameBuffer]_vars
  /\ []OneBufferPerFrame

\* a frame was received over several calls: the call that returned its
\* plaintext found the buffer of an earlier call and allocated nothing
C26_Witness ==
  /\ last.op = "read" /\ last.ret > 0
  /\ last.allocs = 0
  /\ hist.allocs = 1
  /\ hist.clean

\* The bytes a frame needs: header, ciphertext and tag.
FrameTarget == LEN_BUF_SIZE + RTSP_ENCRYPTED_BLOCK_MAX + TAG_LEN

\* A reader call has returned, having taken no more bytes than one frame has;
\* its counters never pass their targets.
CallEnds ==
  last.op = "read" =>
    /\ last.ret \in (-1)..RTSP_ENCRYPTED_BLOCK_MAX
    /\ last.moved >= 0 /\ last.moved <= FrameTarget
    /\ crypto_rx.len_received <= LEN_BUF_SIZE
    /\ crypto_rx.encrypted_received <= crypto_rx.encrypted_len

\* Everything the remote end wrote has been returned to the caller.
AllRead ==
  /\ hist.readPlain = hist.sentPlain
  /\ rxWire = <<>>
  /\ Idle(crypto_rx)

\* C27: every call of rtsp_crypto_read_block ends, each recv adding bytes
\* towards a bounded target or ending the call; and when the remote end has
\* delivered valid frames and the caller calls again after every return of 0
\* (no recv or malloc fails and the buffer is large enough: hist.sync stays
\* true), the frames' plaintext is eventually returned: the reader does not
\* stay awaiting the length or the ciphertext for ever.
C27_ReaderTerminatesAndProgresses ==
  /\ []CallEnds
  /\ ([]hist.sync) => ((hist.sends > 0) ~> AllRead)

\* the payload was returned after a call that had returned 0 with a part of
\* the frame held
C27_Witness ==
  /\ last.op = "read" /\ last.ret > 0
  /\ hist.sync
  /\ hist.sends > 0
  /\ AllRead
  /\ last.moved < Len(hist.start.wire)
  /\ Len(hist.sentPlain) <= RTSP_ENCRYPTED_BLOCK_MAX

\* C28: a reader call that returns 0 or -1 leaves decrypt_nonce as it found
\* it, whatever buffer_size each call of the sequence was given; the counter
\* moves only in a call that returns a positive plaintext length.
C28_NonceAdvancesOnlyOnSuccess ==
  last.op = "read" /\ last.ret <= 0 =>
    hap_session.decrypt_nonce = last.pre_nonce

\* C29: the bytes a reader call stores in the caller's buffer are never more
\* than the buffer_size of that call, also when an earlier call with a larger
\* buffer_size accepted the frame's length.
C29_WritesWithinBufferSize ==
  last.op = "read" => last.written <= last.bsize

\* the ciphertext buffer is held exactly while a valid frame is part received
BufferHeldIffMidFrame ==
  crypto_rx.encrypted.alloc <=>
    /\ crypto_rx.len_received = LEN_BUF_SIZE
    /\ crypto_rx.block_len \in 1..RTSP_ENCRYPTED_BLOCK_MAX
    /\ crypto_rx.encrypted_len = crypto_rx.block_len + TAG_LEN
    /\ crypto_rx.encrypted_received < crypto_rx.encrypted_len

\* C30: between two calls of rtsp_crypto_read_block the partial-read state is
\* well formed: at most 2 header bytes and at most encrypted_len ciphertext
\* bytes are counted; a buffer is held if and only if the header is complete,
\* block_len is in 1..RTSP_ENCRYPTED_BLOCK_MAX, encrypted_len is block_len
\* plus the tag length and the ciphertext is incomplete; and without a buffer
\* block_len, encrypted_len and encrypted_received are 0.
C30_PartialReadStateWellFormed ==
  /\ crypto_rx.len_received \in 0..LEN_BUF_SIZE
  /\ crypto_rx.encrypted_received \in 0..crypto_rx.encrypted_len
  /\ BufferHeldIffMidFrame
  /\ Len(crypto_rx.encrypted.mem) =
       (IF crypto_rx.encrypted.alloc THEN crypto_rx.encrypted_len ELSE 0)
  /\ ~crypto_rx.encrypted.alloc =>
       /\ crypto_rx.block_len = 0
       /\ crypto_rx.encrypted_len = 0
       /\ crypto_rx.encrypted_received = 0

\* a call returned 0 holding a part of the ciphertext, after an earlier call
\* had left a part of the header
C30_Witness ==
  /\ last.op = "read" /\ last.ret = 0 /\ last.exit = 87
  /\ last.allocs = 0
  /\ crypto_rx.encrypted.alloc
  /\ crypto_rx.encrypted_received > 0
  /\ crypto_rx.encrypted_received < crypto_rx.encrypted_len

\* C31: the three outcomes of a reader call do not overlap. A positive return
\* is the frame's declared length, lies in 1..min(RTSP_ENCRYPTED_BLOCK_MAX,
\* buffer_size) and comes with the frame's plaintext delivered and the nonce
\* advanced; a return of 0 comes from a would-block recv only, with no frame
\* consumed (nothing delivered or written, the nonce as before); every other
\* return is -1 from one of the fatal exits.
C31_OutcomesDisjoint ==
  last.op = "read" =>
    /\ last.ret \in {-1, 0} \cup (1..Min(RTSP_ENCRYPTED_BLOCK_MAX, last.bsize))
    /\ last.ret > 0 =>
         /\ last.exit = 145
         /\ last.ret = BlockLenOf(crypto_rx.len_buf)
         /\ last.delivered = last.ret
         /\ hap_session.decrypt_nonce = last.pre_nonce + 1
    /\ last.ret = 0 =>
         /\ last.exit \in {41, 87}
         /\ last.delivered = 0 /\ last.written = 0
         /\ hap_session.decrypt_nonce = last.pre_nonce
         /\ last.moved < LEN_BUF_SIZE + RTSP_ENCRYPTED_BLOCK_MAX + TAG_LEN
    /\ last.ret = -1 <=>
         last.exit \in {30, 43, 46, 62, 75, 95, 105, 128, 142}

\* a frame of the largest length was returned by a call that resumed it
C31_Witness ==
  /\ last.op = "read" /\ last.ret = RTSP_ENCRYPTED_BLOCK_MAX
  /\ last.exit = 145 /\ last.allocs = 0
  /\ last.ret = last.bsize

\* what rtsp_request_parse stores for the bytes a helper was called on
MainParse == rtsp_request_parse(buffer, last.len)

\* C32: for a request whose header block is complete, rtsp_parse_cseq returns
\* the sequence number and rtsp_parse_content_length the content length that
\* rtsp_request_parse stores in cseq and content_length, for every casing of
\* the header name and whatever the body holds.
C32_HelpersAgreeWithParser ==
  /\ (last.op = "cseq" /\ MainParse.ret = 0) =>
       last.ret = MainParse.req.cseq
  /\ (last.op = "clen" /\ MainParse.ret = 0) =>
       SizeOfInt(last.ret) = MainParse.req.content_length

\* what rtsp_request_parse stores for the same request without the padding
Unpadded == rtsp_request_parse(Render(peer) \o <<0>>, Len(Render(peer)))

\* C33: the CSeq, Content-Length and Content-Type values rtsp_request_parse
\* stores do not depend on how many bytes of other headers stand before the
\* header's line, also when the header block is longer than the parser's
\* header copy.
C33_HeaderFoundAtAnyOffset ==
  last.op = "parse" =>
    /\ last.ret = Unpadded.ret
    /\ last.req.cseq = Unpadded.req.cseq
    /\ last.req.content_length = Unpadded.req.content_length
    /\ last.req.content_type = Unpadded.req.content_type

\* sizeof(header) of the builder that made the last call
HeaderArraySize ==
  IF last.op = "http" THEN HTTP_HEADER_SIZE ELSE RTSP_HEADER_SIZE

\* C34: in rtsp_send_response and rtsp_send_http_response the head length
\* that sizes and fills the response buffer never exceeds the size of the
\* local header array, for every status text, extra_headers and content_type.
C34_HeadLengthWithinArray ==
  IsBuilderCall => last.header_len <= HeaderArraySize

(***************************************************************************)
(* The start of the AirPlay services: properties.                          *)
(***************************************************************************)
\* task t is inside the initialisation sequence (lines 39-51)
InSequence(t) == last[t].pc \in {"ptp", "seq"}

\* C35: the initialisation sequence of start_airplay_services is never run
\* by app_main and wifi_monitor_task at the same time, and never run again
\* after it completed.
C35_ServicesStartedAtMostOnce ==
  /\ ~(InSequence("app_main") /\ InSequence("wifi_monitor_task"))
  /\ hist.runs <= 1
  /\ hist.runs = 1 =>
       ~InSequence("app_main") /\ ~InSequence("wifi_monitor_task")

\* C36: when the station becomes connected and stays so (and no
\* ptp_clock_init fails), the initialisation sequence is eventually run,
\* whenever the connection comes.
C36_ConnectedEventuallyStarts ==
  ((<>[]peer.wifi) /\ []~hist.failed) => <>(hist.runs > 0)

=============================================================================
